---- MODULE Spec2Model ----
(***************************************************************************)
(* Model of the physkit unit-conversion engine (physkit/units/*.py), of    *)
(* the vapor-pressure correlation pipeline (thinfilm/vapor_pressure.py),   *)
(* of the flux and mobility models, the grids, the mixtures, the operators *)
(* of the quantum module and the constants and parameter containers.       *)
(*                                                                         *)
(* The state machine is a client that calls one library function per      *)
(* step; the state records the call that was made, its outcome, the call   *)
(* before it, and the objects the library keeps: the conversion tables,    *)
(* the operators, the constants classes and the parameter objects.  Spec   *)
(* is the client of the functions; OperatorSpec, ConstantsSpec and         *)
(* BundleSpec are the clients of the objects, ReassignSpec a client that   *)
(* also assigns the attributes of an operator, WellSpec the client of the  *)
(* infinite square well, and FloatSpec the client of the temperature       *)
(* conversion in binary64 arithmetic.                                      *)
(*                                                                         *)
(* Numbers.  Python floats are modelled as exact reals of the form         *)
(*      q * 2^two * 5^five * PRODUCT atom^k                                *)
(* with q a reduced fraction coprime to 10, two and five rational          *)
(* exponents and "atoms" the long decimal literals of the source           *)
(* (elementary charge, Bohr radius, ...), kept as opaque positive reals.   *)
(* Rounding is modelled where a statement depends on it: the binary64      *)
(* section computes the temperature conversion with round-to-nearest-even  *)
(* on 53-bit significands.                                                 *)
(*                                                                         *)
(* A value that a body reads several times is bound as the parameter of a  *)
(* local operator (LET By(s) == ... IN By(Lookup(...))), the counterpart   *)
(* of the local variable of the source.                                    *)
(***************************************************************************)
EXTENDS Integers, Sequences, FiniteSets, TLC

\* ------------------------------------------------------------------------
\* Exact fractions <<n, d>>, d > 0, gcd(n, d) = 1
\* ------------------------------------------------------------------------
Abs(i) == IF i < 0 THEN -i ELSE i

Min(i, j) == IF i <= j THEN i ELSE j

RECURSIVE GCD(_, _)
GCD(a, b) == IF b = 0 THEN a ELSE GCD(b, a % b)

Rat(n, d) ==
  LET g == GCD(Abs(n), Abs(d))
      s == IF d < 0 THEN -1 ELSE 1
  IN  <<(s * n) \div g, (s * d) \div g>>

RInt(n) == <<n, 1>>

RMul(x, y) ==
  LET g1 == GCD(Abs(x[1]), y[2])
      g2 == GCD(Abs(y[1]), x[2])
  IN  Rat((x[1] \div g1) * (y[1] \div g2), (x[2] \div g2) * (y[2] \div g1))

RInv(x) == Rat(x[2], x[1])

RDiv(x, y) == RMul(x, RInv(y))

RAdd(x, y) ==
  LET g == GCD(x[2], y[2])
  IN  Rat(x[1] * (y[2] \div g) + y[1] * (x[2] \div g), (x[2] \div g) * y[2])

RNeg(x) == <<-x[1], x[2]>>

RSub(x, y) == RAdd(x, RNeg(y))

RECURSIVE Pow(_, _)
Pow(p, k) == IF k = 0 THEN 1 ELSE p * Pow(p, k - 1)

\* x * p^k for an integer k and a prime p that divides neither part of x
RScale(x, p, k) == IF k >= 0 THEN <<x[1] * Pow(p, k), x[2]>>
                   ELSE <<x[1], x[2] * Pow(p, -k)>>

\* ------------------------------------------------------------------------
\* Reals of the model:
\*   [q: fraction coprime to 10, two, five: fractions (the powers of 2 and
\*    of 5), a: the power of each atom]
\* ------------------------------------------------------------------------
\* The decimal literals of the source with more than seven significant
\* digits.  Each is an opaque positive real.
Atoms == {"E", "A0", "EH", "C_CM", "PSI", "FTLBF", "LBF", "N_A", "LBM",
          "OZ", "AMU", "ME", "T0", "MU"}

NoAtoms == [t \in Atoms |-> 0]

Zero == [q |-> <<0, 1>>, two |-> <<0, 1>>, five |-> <<0, 1>>, a |-> NoAtoms]

\* x + k for a reduced fraction x and an integer k
RShift(x, k) == <<x[1] + k * x[2], x[2]>>

\* canonical form: the factors 2 and 5 of q are moved into the exponents
RECURSIVE Norm(_, _, _, _)
Norm(q, two, five, a) ==
  IF q[1] = 0 THEN Zero
  ELSE IF q[1] % 2 = 0 THEN Norm(<<q[1] \div 2, q[2]>>, RShift(two, 1), five, a)
  ELSE IF q[2] % 2 = 0 THEN Norm(<<q[1], q[2] \div 2>>, RShift(two, -1), five, a)
  ELSE IF q[1] % 5 = 0 THEN Norm(<<q[1] \div 5, q[2]>>, two, RShift(five, 1), a)
  ELSE IF q[2] % 5 = 0 THEN Norm(<<q[1], q[2] \div 5>>, two, RShift(five, -1), a)
  ELSE [q |-> q, two |-> two, five |-> five, a |-> a]

\* the literal n * 10^k
Dec(n, k) == Norm(<<n, 1>>, <<k, 1>>, <<k, 1>>, NoAtoms)

One == Dec(1, 0)

\* a long literal of the source
Lit(t) == [q |-> <<1, 1>>, two |-> <<0, 1>>, five |-> <<0, 1>>,
           a |-> [s \in Atoms |-> IF s = t THEN 1 ELSE 0]]

NMul(x, y) ==
  Norm(RMul(x.q, y.q), RAdd(x.two, y.two), RAdd(x.five, y.five),
       [t \in Atoms |-> x.a[t] + y.a[t]])

NDiv(x, y) ==
  Norm(RDiv(x.q, y.q), RSub(x.two, y.two), RSub(x.five, y.five),
       [t \in Atoms |-> x.a[t] - y.a[t]])

RECURSIVE NPow(_, _)
NPow(x, k) == IF k = 0 THEN One
              ELSE IF k > 0 THEN NMul(x, NPow(x, k - 1))
              ELSE NDiv(One, NPow(x, -k))

\* Sums are taken between atom-free reals with integer powers of 2 and 5
\* (the temperatures and the Antoine coefficients).
Summable(x) == x.a = NoAtoms /\ x.two[2] = 1 /\ x.five[2] = 1

NAdd(x, y) ==
  IF x.q[1] = 0 THEN y
  ELSE IF y.q[1] = 0 THEN x
  ELSE LET m2 == Min(x.two[1], y.two[1])
           m5 == Min(x.five[1], y.five[1])
           xs == RScale(RScale(x.q, 2, x.two[1] - m2), 5, x.five[1] - m5)
           ys == RScale(RScale(y.q, 2, y.two[1] - m2), 5, y.five[1] - m5)
       IN  Norm(RAdd(xs, ys), <<m2, 1>>, <<m5, 1>>, NoAtoms)

NNeg(x) == [x EXCEPT !.q = RNeg(x.q)]

NSub(x, y) == NAdd(x, NNeg(y))

NIsZero(x) == x.q[1] = 0

\* every atom is positive, so the sign is the sign of q
NSign(x) == IF x.q[1] > 0 THEN 1 ELSE IF x.q[1] < 0 THEN -1 ELSE 0

NLt(x, y) == NSign(NSub(x, y)) < 0

NLe(x, y) == NSign(NSub(x, y)) <= 0

\* the fraction an atom-free real with integer exponents stands for
RatOf(x) == RScale(RScale(x.q, 2, x.two[1]), 5, x.five[1])

\* 10.0 ** x for an atom-free x
NPow10(x) == [q |-> RInt(1), two |-> RatOf(x), five |-> RatOf(x), a |-> NoAtoms]

\* ------------------------------------------------------------------------
\* Scale tables (index k + 1 holds the factor of the unit with ordinal k)
\* ------------------------------------------------------------------------
Quantities == {"Length", "Mass", "Time", "Pressure", "Temperature", "Energy",
               "Force", "Charge", "Dipole", "Density", "ElectricField",
               "Velocity", "Viscosity", "Torque", "MolarMass", "ParticleMass"}

Length_TO_M ==
  << One, Dec(1, 3), Dec(1, -2), Dec(1, -3), Dec(1, -6), Dec(1, -9),
     Dec(1, -12), Dec(1, -10), Lit("A0"),
     Dec(254, -4), Dec(3048, -4), Dec(9144, -4), Dec(1609344, -3) >>

Mass_TO_KG ==
  << One, Dec(1, -3), Dec(1, -6), Dec(1, 3), Lit("LBM"), Lit("OZ"),
     Dec(1, -3), Lit("AMU"), Lit("ME") >>

Time_TO_S ==
  << One, Dec(1, -3), Dec(1, -6), Dec(1, -9), Dec(1, -12), Dec(1, -15),
     Dec(60, 0), Dec(3600, 0), Dec(86400, 0), Lit("T0") >>

Pressure_P0 == NDiv(Lit("EH"), NPow(Lit("A0"), 3))

Pressure_TO_PA ==
  << One, Dec(1, 3), Dec(1, 6), Dec(1, 9), Dec(1, 5), Dec(101325, 0),
     Dec(100, 0), Dec(100, 0),
     NDiv(Dec(101325, 0), Dec(760, 0)), NDiv(Dec(101325, 0), Dec(760, 0)),
     Lit("PSI"), Dec(1, -1), Dec(980665, -4), Pressure_P0 >>

Energy_TO_J ==
  << One, Dec(1, 3), Dec(1, 6),
     NMul(One, Lit("E")), NMul(Dec(1, -3), Lit("E")), NMul(Dec(1, 3), Lit("E")),
     NMul(Dec(1, 6), Lit("E")), NMul(Dec(1, 9), Lit("E")),
     Dec(1, -7), Lit("FTLBF"), NDiv(Lit("FTLBF"), Dec(12, 0)),
     Dec(4184, 0), Dec(4184, 0), Lit("EH") >>

Force_KCAL_PER_MOL_A_TO_N == NDiv(NDiv(Dec(4184, 0), Lit("N_A")), Dec(1, -10))

Force_TO_N ==
  << One, Dec(1, 3), Dec(1, 6), Dec(1, -5), Lit("LBF"),
     Force_KCAL_PER_MOL_A_TO_N,
     NDiv(Lit("E"), Dec(1, -10)),
     NDiv(Lit("EH"), Lit("A0")) >>

ESU_TO_C == NDiv(Dec(1, -1), Lit("C_CM"))

Charge_TO_C == << One, ESU_TO_C, Lit("E"), Lit("E") >>

Dipole_TO_C_M ==
  << One,
     NMul(ESU_TO_C, Dec(1, -2)),
     NMul(NMul(Dec(1, -18), ESU_TO_C), Dec(1, -2)),
     NMul(Lit("E"), Dec(1, -10)),
     NMul(Lit("E"), Lit("A0")) >>

ElectricField_TO_V_per_m ==
  << One,
     NDiv(One, Dec(1, -2)),
     NDiv(One, Dec(1, -10)),
     NDiv(NMul(Dec(1, -6), Lit("C_CM")), Dec(1, -2)),
     NDiv(Lit("EH"), NMul(Lit("E"), Lit("A0"))) >>

Velocity_TO_m_per_s ==
  << One, Dec(1, -2),
     NDiv(Dec(1, -10), Dec(1, -15)),
     NDiv(Dec(1, -10), Dec(1, -12)),
     NDiv(Lit("A0"), Lit("T0")),
     NDiv(Lit("A0"), Lit("T0")) >>

\* a slip: a scale factor with the wrong sign
Viscosity_TO_Pa_s_Negative == << One, Dec(-1, -1), Dec(1, -3) >>

Viscosity_TO_Pa_s == << One, Dec(1, -1), Dec(1, -3) >>

Torque_TO_N_M ==
  << One, Dec(1, -7), Lit("FTLBF"), NDiv(Lit("FTLBF"), Dec(12, 0)),
     NMul(One, Lit("E")), Lit("EH"), Dec(4184, 0), Dec(4184, 0) >>

MolarMass_TO_KG_PER_MOL == << Dec(1, -3), One, Dec(1, -3) >>

\* _MU = getattr(ConstantsSI, "m_u", ...) = 1.66053906892e-27
ParticleMass_TO_KG == << One, Lit("MU") >>

Density_TO_KG_PER_M_DIM ==
  << One,
     NMul(Dec(1, -3), NPow(Dec(1, -2), -1)),
     One,
     NMul(Dec(1, -3), NPow(Dec(1, -2), -3)),
     NMul(Lit("ME"), NPow(Lit("A0"), -1)) >>

Temperature_SCALE_TO_K ==
  << One, One, Dec(1, -3), NDiv(Dec(5, 0), Dec(9, 0)), NDiv(Dec(5, 0), Dec(9, 0)) >>

Temperature_OFFSET_TO_K ==
  << Zero, Dec(27315, -2), Zero,
     NDiv(NMul(Dec(45967, -2), Dec(5, 0)), Dec(9, 0)), Zero >>

\* the scale table of each quantity class, as the module defines it
TableAtLoad(q) ==
  CASE q = "Length"        -> Length_TO_M
    [] q = "Mass"          -> Mass_TO_KG
    [] q = "Time"          -> Time_TO_S
    [] q = "Pressure"      -> Pressure_TO_PA
    [] q = "Temperature"   -> Temperature_SCALE_TO_K
    [] q = "Energy"        -> Energy_TO_J
    [] q = "Force"         -> Force_TO_N
    [] q = "Charge"        -> Charge_TO_C
    [] q = "Dipole"        -> Dipole_TO_C_M
    [] q = "Density"       -> Density_TO_KG_PER_M_DIM
    [] q = "ElectricField" -> ElectricField_TO_V_per_m
    [] q = "Velocity"      -> Velocity_TO_m_per_s
    [] q = "Viscosity"     -> Viscosity_TO_Pa_s
    [] q = "Torque"        -> Torque_TO_N_M
    [] q = "MolarMass"     -> MolarMass_TO_KG_PER_MOL
    [] q = "ParticleMass"  -> ParticleMass_TO_KG

\* the class attributes that hold a table: one per quantity, and the offset
\* table of Temperature
TableNames == Quantities \cup {"TemperatureOffset"}

TablesAtLoad ==
  [n \in TableNames |->
     IF n = "TemperatureOffset" THEN Temperature_OFFSET_TO_K
     ELSE TableAtLoad(n)]

VARIABLE
  tables   \* the value each table attribute holds now

\* X._TO_Y (Temperature._SCALE_TO_K, Temperature._OFFSET_TO_K): the
\* attribute is read at every call
TO(q) == tables[q]

\* a slip: a call uses up the last entry of the table it read
TablesAfterCall_Consumed(q) ==
  IF Len(tables[q]) = 0 THEN tables
  ELSE [tables EXCEPT ![q] = SubSeq(@, 1, Len(@) - 1)]

\* the tables after a call of convert, to_canonical or from_canonical of
\* quantity q: the functions read the tuples and assign nothing
TablesAfterCall(q) == tables

\* ------------------------------------------------------------------------
\* Unit arguments.  A caller can pass a member of some quantity's Units
\* enumeration (an IntEnum), a bare int, or any other object.
\* ------------------------------------------------------------------------
EnumUnit(q, k) == [kind |-> "enum", of |-> q, ord |-> k]

IntUnit(k) == [kind |-> "int", of |-> "none", ord |-> k]

ObjUnit == [kind |-> "object", of |-> "none", ord |-> 0]

\* len(q.Units)
UnitCount(q) ==
  CASE q = "Length"        -> 13
    [] q = "Mass"          -> 9
    [] q = "Time"          -> 10
    [] q = "Pressure"      -> 14
    [] q = "Temperature"   -> 5
    [] q = "Energy"        -> 14
    [] q = "Force"         -> 8
    [] q = "Charge"        -> 4
    [] q = "Dipole"        -> 5
    [] q = "Density"       -> 5
    [] q = "ElectricField" -> 5
    [] q = "Velocity"      -> 6
    [] q = "Viscosity"     -> 3
    [] q = "Torque"        -> 8
    [] q = "MolarMass"     -> 3
    [] q = "ParticleMass"  -> 2

\* the members of q.Units: one per ordinal of the enumeration
Units(q) == {EnumUnit(q, k) : k \in 0 .. UnitCount(q) - 1}

\* the canonical unit of q (scale 1)
Canonical(q) == IF q = "MolarMass" THEN EnumUnit(q, 1) ELSE EnumUnit(q, 0)

Ok(v) == [kind |-> "ok", val |-> v]

Err(e) == [kind |-> "error", val |-> e]

IsOk(r) == r.kind = "ok"

\* int(unit): an IntEnum member or an int gives its value, any other
\* object raises TypeError
PyInt(u) == IF u.kind = "object" THEN Err("TypeError") ELSE Ok(u.ord)

\* tuple[i]: negative indices count from the end, out of range raises
TupleGet(t, i) ==
  IF i >= 0 /\ i < Len(t) THEN Ok(t[i + 1])
  ELSE IF i < 0 /\ i >= -Len(t) THEN Ok(t[Len(t) + i + 1])
  ELSE Err("IndexError")

\* table[int(unit)]
Lookup(t, u) ==
  LET i == PyInt(u) IN IF IsOk(i) THEN TupleGet(t, i.val) ELSE i

\* ------------------------------------------------------------------------
\* Conversions
\* ------------------------------------------------------------------------
\* _to_canonical / to_canonical of a multiplicative quantity:
\*   value * _TO_X[int(unit)]
ToCanonical(q, value, unit) ==
  LET By(s) == IF IsOk(s) THEN Ok(NMul(value, s.val)) ELSE s
  IN  By(Lookup(TO(q), unit))

\* a slip: the second half multiplies by the factor instead of dividing
FromCanonical_Multiplies(q, value, unit) ==
  LET By(s) == IF IsOk(s) THEN Ok(NMul(value, s.val)) ELSE s
  IN  By(Lookup(TO(q), unit))

\* _from_canonical / from_canonical of a multiplicative quantity:
\*   value / _TO_X[int(unit)]
FromCanonical(q, value, unit) ==
  LET By(s) == IF IsOk(s) THEN Ok(NDiv(value, s.val)) ELSE s
  IN  By(Lookup(TO(q), unit))

\* convert of a multiplicative quantity: to canonical, then from canonical
MultConvert(q, value, unit_from, to) ==
  LET Then(c) == IF IsOk(c) THEN FromCanonical(q, c.val, to) ELSE c
  IN  Then(ToCanonical(q, value, unit_from))

\* Pressure.convert: value * (_TO_PA[int(unit_from)] / _TO_PA[int(to)])
PressureConvert(value, unit_from, to) ==
  LET By(sf, st) == IF ~IsOk(sf) THEN sf
                    ELSE IF ~IsOk(st) THEN st
                    ELSE Ok(NMul(value, NDiv(sf.val, st.val)))
  IN  By(Lookup(TO("Pressure"), unit_from), Lookup(TO("Pressure"), to))

\* Temperature.to_canonical: value * scale + offset
TemperatureToCanonical(value, unit) ==
  LET By(s, o) == IF ~IsOk(s) THEN s
                  ELSE IF ~IsOk(o) THEN o
                  ELSE Ok(NAdd(NMul(value, s.val), o.val))
  IN  By(Lookup(TO("Temperature"), unit),
         Lookup(TO("TemperatureOffset"), unit))

\* Temperature.from_canonical: (value_k - offset) / scale
TemperatureFromCanonical(value_k, unit) ==
  LET By(o, s) == IF ~IsOk(o) THEN o
                  ELSE IF ~IsOk(s) THEN s
                  ELSE Ok(NDiv(NSub(value_k, o.val), s.val))
  IN  By(Lookup(TO("TemperatureOffset"), unit),
         Lookup(TO("Temperature"), unit))

\* a slip: the second half takes the offset of the source unit
TemperatureConvert_SourceOffset(value, unit_from, to) ==
  LET By(sf, of, st) ==
        IF ~IsOk(sf) THEN sf
        ELSE IF ~IsOk(of) THEN of
        ELSE IF ~IsOk(st) THEN st
        ELSE Ok(NDiv(NSub(NAdd(NMul(value, sf.val), of.val), of.val), st.val))
  IN  By(Lookup(TO("Temperature"), unit_from),
         Lookup(TO("TemperatureOffset"), unit_from),
         Lookup(TO("Temperature"), to))

\* Temperature.convert: the two halves written out in one body
TemperatureConvert(value, unit_from, to) ==
  LET By(sf, of, ot, st) ==
        IF ~IsOk(sf) THEN sf
        ELSE IF ~IsOk(of) THEN of
        ELSE IF ~IsOk(ot) THEN ot
        ELSE IF ~IsOk(st) THEN st
        ELSE Ok(NDiv(NSub(NAdd(NMul(value, sf.val), of.val), ot.val), st.val))
  IN  By(Lookup(TO("Temperature"), unit_from),
         Lookup(TO("TemperatureOffset"), unit_from),
         Lookup(TO("TemperatureOffset"), to),
         Lookup(TO("Temperature"), to))

\* unit in (Density.Units.kg_per_m3, Density.Units.g_per_cm3): IntEnum
\* members compare equal to their int value
IsFixed3D(unit) == unit.kind # "object" /\ unit.ord \in {2, 3}

\* unit in (Density.Units.g_per_cm_dim, Density.Units.atomic)
IsDimGeneric(unit) == unit.kind # "object" /\ unit.ord \in {1, 4}

\* a slip: the fixed-3D units are not checked against dim
DensityFactor_NoDimCheck(unit, dim) ==
  LET Of(s) == IF ~IsOk(s) THEN s
               ELSE IF unit.kind # "object" /\ unit.ord \in {1, 4}
                    THEN Ok(NPow(s.val, dim))
               ELSE s
  IN  Of(Lookup(TO("Density"), unit))

\* the factor Density applies for a unit: scale ** dim or scale
DensityFactor(unit, dim) ==
  LET Of(s) == IF ~IsOk(s) THEN s
               ELSE IF IsFixed3D(unit) /\ dim # 3 THEN Err("ValueError")
               ELSE IF IsDimGeneric(unit) THEN Ok(NPow(s.val, dim))
               ELSE s
  IN  Of(Lookup(TO("Density"), unit))

\* Density._to_canonical
DensityToCanonical(value, unit, dim) ==
  LET By(f) == IF IsOk(f) THEN Ok(NMul(value, f.val)) ELSE f
  IN  By(DensityFactor(unit, dim))

\* Density._from_canonical
DensityFromCanonical(value, unit, dim) ==
  LET By(f) == IF IsOk(f) THEN Ok(NDiv(value, f.val)) ELSE f
  IN  By(DensityFactor(unit, dim))

\* Density.convert
DensityConvert(value, unit_from, to, dim) ==
  IF dim \notin {1, 2, 3} THEN Err("ValueError")
  ELSE LET Then(c) == IF IsOk(c) THEN DensityFromCanonical(c.val, to, dim)
                      ELSE c
       IN  Then(DensityToCanonical(value, unit_from, dim))

\* Density.convert(from_=(value, unit_from), to=to): dim is left out and
\* takes the default of the signature, dim: int = 3
DensityConvertNoDim(value, unit_from, to) ==
  DensityConvert(value, unit_from, to, 3)

\* X.convert(from_=(value, unit_from), to=to) of quantity q
Convert(q, value, unit_from, to, dim) ==
  CASE q = "Pressure"    -> PressureConvert(value, unit_from, to)
    [] q = "Temperature" -> TemperatureConvert(value, unit_from, to)
    [] q = "Density"     -> DensityConvert(value, unit_from, to, dim)
    [] OTHER             -> MultConvert(q, value, unit_from, to)

\* the first half of the conversion of q
HalfTo(q, value, unit, dim) ==
  CASE q = "Temperature" -> TemperatureToCanonical(value, unit)
    [] q = "Density"     -> DensityToCanonical(value, unit, dim)
    [] OTHER             -> ToCanonical(q, value, unit)

\* the second half of the conversion of q
HalfFrom(q, value, unit, dim) ==
  CASE q = "Temperature" -> TemperatureFromCanonical(value, unit)
    [] q = "Density"     -> DensityFromCanonical(value, unit, dim)
    [] OTHER             -> FromCanonical(q, value, unit)

\* ------------------------------------------------------------------------
\* Temperature.convert in binary64, the arithmetic of Python floats
\*
\* A natural number is the sequence of its digits in base 2^15, lowest
\* first, without leading zeros.  A double is [s, m, e], of value
\* s * m * 2^e, with 2^52 <= m < 2^53, or m = 0 for zero.  Every operation
\* returns the double nearest to the exact result, ties to the even
\* mantissa.  Overflow, subnormals and the sign of zero are not followed:
\* temperatures stay far inside the normal range.
\* ------------------------------------------------------------------------
Limb == 2 ^ 15

RECURSIVE BigNorm(_)
BigNorm(a) ==
  IF a = <<>> THEN a
  ELSE IF a[Len(a)] = 0 THEN BigNorm(SubSeq(a, 1, Len(a) - 1))
  ELSE a

RECURSIVE BigOf(_)
BigOf(n) == IF n = 0 THEN <<>> ELSE <<n % Limb>> \o BigOf(n \div Limb)

Digit(a, i) == IF i <= Len(a) THEN a[i] ELSE 0

RECURSIVE BigAddFrom(_, _, _, _)
BigAddFrom(a, b, i, carry) ==
  IF i > Len(a) /\ i > Len(b) THEN IF carry = 0 THEN <<>> ELSE <<carry>>
  ELSE LET Put(t) == <<t % Limb>> \o BigAddFrom(a, b, i + 1, t \div Limb)
       IN  Put(Digit(a, i) + Digit(b, i) + carry)

BigAdd(a, b) == BigNorm(BigAddFrom(a, b, 1, 0))

\* a - b for a >= b
RECURSIVE BigSubFrom(_, _, _, _)
BigSubFrom(a, b, i, borrow) ==
  IF i > Len(a) THEN <<>>
  ELSE LET Put(t) ==
             IF t < 0 THEN <<t + Limb>> \o BigSubFrom(a, b, i + 1, 1)
             ELSE <<t>> \o BigSubFrom(a, b, i + 1, 0)
       IN  Put(Digit(a, i) - Digit(b, i) - borrow)

BigSub(a, b) == BigNorm(BigSubFrom(a, b, 1, 0))

RECURSIVE BigLtFrom(_, _, _)
BigLtFrom(a, b, i) ==
  IF i = 0 THEN FALSE
  ELSE IF a[i] # b[i] THEN a[i] < b[i]
  ELSE BigLtFrom(a, b, i - 1)

BigLt(a, b) ==
  IF Len(a) # Len(b) THEN Len(a) < Len(b) ELSE BigLtFrom(a, b, Len(a))

\* a * d + carry for one digit d
RECURSIVE BigScaleFrom(_, _, _, _)
BigScaleFrom(a, d, i, carry) ==
  IF i > Len(a) THEN IF carry = 0 THEN <<>> ELSE <<carry>>
  ELSE LET Put(t) == <<t % Limb>> \o BigScaleFrom(a, d, i + 1, t \div Limb)
       IN  Put(a[i] * d + carry)

RECURSIVE BigMulFrom(_, _, _)
BigMulFrom(a, b, i) ==
  IF i > Len(b) THEN <<>>
  ELSE BigAdd(BigScaleFrom(a, b[i], 1, 0), <<0>> \o BigMulFrom(a, b, i + 1))

BigMul(a, b) == BigNorm(BigMulFrom(a, b, 1))

\* 2^k
BigPow2(k) ==
  [i \in 1 .. (k \div 15) + 1 |->
     IF i = (k \div 15) + 1 THEN 2 ^ (k % 15) ELSE 0]

BigShl(a, k) == BigMul(a, BigPow2(k))

RECURSIVE SmallBits(_)
SmallBits(n) == IF n = 0 THEN 0 ELSE 1 + SmallBits(n \div 2)

\* number of binary digits
BigBits(a) ==
  IF a = <<>> THEN 0 ELSE 15 * (Len(a) - 1) + SmallBits(a[Len(a)])

\* binary digit i, the lowest being digit 0
BigBit(a, i) == (Digit(a, (i \div 15) + 1) \div (2 ^ (i % 15))) % 2

\* floor(a / 2^k) and a mod 2^k
BigShr(a, k) ==
  BigNorm([i \in 1 .. Len(a) - (k \div 15) |->
             (a[i + (k \div 15)] \div (2 ^ (k % 15)))
             + (Digit(a, i + (k \div 15) + 1) % (2 ^ (k % 15)))
               * (2 ^ (15 - (k % 15)))])

BigLow(a, k) ==
  BigNorm([i \in 1 .. Min(Len(a), (k \div 15) + 1) |->
             IF i <= k \div 15 THEN a[i] ELSE a[i] % (2 ^ (k % 15))])

\* the largest digit t + u, u < 2^(bit + 1), with (t + u) * d <= r
RECURSIVE BigDigit(_, _, _, _)
BigDigit(r, d, bit, t) ==
  IF bit < 0 THEN t
  ELSE IF BigLt(r, BigNorm(BigScaleFrom(d, t + 2 ^ bit, 1, 0)))
       THEN BigDigit(r, d, bit - 1, t)
  ELSE BigDigit(r, d, bit - 1, t + 2 ^ bit)

\* quotient and remainder of floor(n / Limb^(i - 1)) by d, one digit at a
\* time
RECURSIVE BigDivModFrom(_, _, _)
BigDivModFrom(n, d, i) ==
  IF i > Len(n) THEN [q |-> <<>>, r |-> <<>>]
  ELSE LET Out(q, r2, t) ==
             [q |-> BigNorm(<<t>> \o q),
              r |-> BigSub(r2, BigNorm(BigScaleFrom(d, t, 1, 0)))]
           Step(q, r2) == Out(q, r2, BigDigit(r2, d, 14, 0))
           Down(p) == Step(p.q, BigNorm(<<n[i]>> \o p.r))
       IN  Down(BigDivModFrom(n, d, i + 1))

BigDivMod(n, d) == BigDivModFrom(n, d, 1)

DZero == [s |-> 1, m |-> <<>>, e |-> 0]

\* the double nearest to s * n * 2^e, ties to even
DRound(s, n, e) ==
  IF n = <<>> THEN DZero
  ELSE IF BigBits(n) <= 53
       THEN [s |-> s, m |-> BigShl(n, 53 - BigBits(n)),
             e |-> e - (53 - BigBits(n))]
  ELSE LET k == BigBits(n) - 53
           Carried(q) ==
             IF BigBits(q) = 54 THEN [s |-> s, m |-> BigPow2(52), e |-> e + k + 1]
             ELSE [s |-> s, m |-> q, e |-> e + k]
           Cut(q, r) ==
             IF \/ BigLt(BigPow2(k - 1), r)
                \/ r = BigPow2(k - 1) /\ BigBit(q, 0) = 1
             THEN Carried(BigAdd(q, <<1>>))
             ELSE Carried(q)
       IN  Cut(BigShr(n, k), BigLow(n, k))

\* the double nearest to s * n / d, for naturals n and d > 0: the quotient
\* is taken to 56 binary digits at least, with one more digit that tells
\* whether a remainder was left
DRatio(s, n, d) ==
  IF n = <<>> THEN DZero
  ELSE LET j == IF 56 + BigBits(d) - BigBits(n) > 0
                THEN 56 + BigBits(d) - BigBits(n) ELSE 0
           Sticky(dm) ==
             DRound(s, BigAdd(BigAdd(dm.q, dm.q),
                              IF dm.r = <<>> THEN <<>> ELSE <<1>>),
                    0 - j - 1)
       IN  Sticky(BigDivMod(BigShl(n, j), d))

\* the literal n.0, and the literal of the decimal n / 10^k
DInt(n) == DRatio(IF n < 0 THEN -1 ELSE 1, BigOf(Abs(n)), <<1>>)

DDec(n, k) == DRatio(IF n < 0 THEN -1 ELSE 1, BigOf(Abs(n)), BigOf(Pow(10, k)))

DNeg(x) == IF x.m = <<>> THEN x ELSE [x EXCEPT !.s = 0 - x.s]

\* x * y
DMul(x, y) == DRound(x.s * y.s, BigMul(x.m, y.m), x.e + y.e)

\* x + y
DAdd(x, y) ==
  IF x.m = <<>> THEN y
  ELSE IF y.m = <<>> THEN x
  ELSE LET Aligned(a, b, e) ==
             IF x.s = y.s THEN DRound(x.s, BigAdd(a, b), e)
             ELSE IF BigLt(a, b) THEN DRound(y.s, BigSub(b, a), e)
             ELSE DRound(x.s, BigSub(a, b), e)
       IN  Aligned(BigShl(x.m, x.e - Min(x.e, y.e)),
                   BigShl(y.m, y.e - Min(x.e, y.e)),
                   Min(x.e, y.e))

\* x - y
DSub(x, y) == DAdd(x, DNeg(y))

\* x / y for y # 0
DDiv(x, y) ==
  IF x.m = <<>> THEN DZero
  ELSE LET Scaled(r) == [r EXCEPT !.e = @ + x.e - y.e]
       IN  Scaled(DRatio(x.s * y.s, x.m, y.m))

\* |x - y| <= 2^k, the difference taken exactly
DWithin(x, y, k) ==
  LET Small(n, e) ==
        \/ n = <<>>
        \/ BigBits(n) + e <= k
        \/ n = BigPow2(BigBits(n) - 1) /\ BigBits(n) - 1 + e = k
      Diff(a, b, e) ==
        IF x.s # y.s THEN Small(BigAdd(a, b), e)
        ELSE IF BigLt(a, b) THEN Small(BigSub(b, a), e)
        ELSE Small(BigSub(a, b), e)
  IN  Diff(BigShl(x.m, x.e - Min(x.e, y.e)),
           BigShl(y.m, y.e - Min(x.e, y.e)),
           Min(x.e, y.e))

\* Temperature._SCALE_TO_K as the module computes it
Temperature_SCALE_TO_K_64 ==
  << DInt(1), DInt(1), DDec(1, 3), DDiv(DInt(5), DInt(9)),
     DDiv(DInt(5), DInt(9)) >>

\* Temperature._OFFSET_TO_K as the module computes it: 459.67 * 5.0 / 9.0
\* is (459.67 * 5.0) / 9.0
Temperature_OFFSET_TO_K_64 ==
  << DZero, DDec(27315, 2), DZero,
     DDiv(DMul(DDec(45967, 2), DInt(5)), DInt(9)), DZero >>

\* a slip: the offset is added before the scale is applied
TemperatureConvert64_OffsetFirst(value, unit_from, to) ==
  LET From(value_k) ==
        DDiv(DSub(value_k, Temperature_OFFSET_TO_K_64[to.ord + 1]),
             Temperature_SCALE_TO_K_64[to.ord + 1])
  IN  From(DMul(DAdd(value, Temperature_OFFSET_TO_K_64[unit_from.ord + 1]),
                Temperature_SCALE_TO_K_64[unit_from.ord + 1]))

\* Temperature.convert on floats, for members of Temperature.Units
TemperatureConvert64(value, unit_from, to) ==
  LET From(value_k) ==
        DDiv(DSub(value_k, Temperature_OFFSET_TO_K_64[to.ord + 1]),
             Temperature_SCALE_TO_K_64[to.ord + 1])
  IN  From(DAdd(DMul(value, Temperature_SCALE_TO_K_64[unit_from.ord + 1]),
                Temperature_OFFSET_TO_K_64[unit_from.ord + 1]))

\* ------------------------------------------------------------------------
\* Vapor-pressure correlations (VaporPressureCurveBase and the Antoine form)
\*
\* A curve is the record of the dataclass fields
\*   [T_unit, P_unit, valid_range_K, A, B, C, P_unit_native, T_unit_native]
\* with valid_range_K either NoRange (None) or <<Tmin, Tmax>>.
\* A temperature input is [shape |-> "scalar" | "array", v |-> <<...>>]:
\* np.asarray makes a scalar a 0-d array, every test below is np.any(...)
\* over the elements and the arithmetic is element-wise.
\* ------------------------------------------------------------------------
None == "None"

\* valid_range_K = None
NoRange == <<>>

K == EnumUnit("Temperature", 0)

Celsius == EnumUnit("Temperature", 1)

Pa == EnumUnit("Pressure", 0)

\* np.any(v <= x), np.any(v < x), np.any(v > x), np.any(v >= x), np.any(v == 0.0)
AnyLe(v, x) == \E i \in 1 .. Len(v) : NLe(v[i], x)

AnyLt(v, x) == \E i \in 1 .. Len(v) : NLt(v[i], x)

AnyGt(v, x) == \E i \in 1 .. Len(v) : NLt(x, v[i])

AnyGe(v, x) == \E i \in 1 .. Len(v) : NLe(x, v[i])

AnyZero(v) == \E i \in 1 .. Len(v) : NIsZero(v[i])

\* v + c, element by element
AddAll(v, c) == [i \in 1 .. Len(v) |-> NAdd(v[i], c)]

\* some element of a sequence of outcomes is an exception
AnyError(r) == \E i \in 1 .. Len(r) : ~IsOk(r[i])

ErrPositive == Err("T must be > 0 K.")

ErrRange == Err("T outside validity range")

ErrSingular == Err("Antoine singularity: T_K + C = 0.")

\* VaporPressureCurveBase._temperature_to_kelvin
TemperatureToKelvin(curve, T) ==
  LET Array(c) ==
        IF AnyError(c)
        THEN c[CHOOSE i \in 1 .. Len(c) : ~IsOk(c[i])]
        ELSE Ok([shape |-> T.shape, v |-> [i \in 1 .. Len(c) |-> c[i].val]])
  IN  Array([i \in 1 .. Len(T.v) |->
               TemperatureToCanonical(T.v[i], curve.T_unit)])

\* a slip: T_K < 0.0 instead of T_K <= 0.0
CheckTemperatureK_ZeroAccepted(curve, T_K, check_range) ==
  IF AnyLt(T_K.v, Zero) THEN ErrPositive
  ELSE IF check_range /\ curve.valid_range_K # NoRange
          /\ (\/ AnyLt(T_K.v, curve.valid_range_K[1])
              \/ AnyGt(T_K.v, curve.valid_range_K[2]))
       THEN ErrRange
  ELSE Ok(None)

\* a slip: T_K <= Tmin, T_K >= Tmax instead of the strict comparisons
CheckTemperatureK_EndpointsRejected(curve, T_K, check_range) ==
  IF AnyLe(T_K.v, Zero) THEN ErrPositive
  ELSE IF check_range /\ curve.valid_range_K # NoRange
          /\ (\/ AnyLe(T_K.v, curve.valid_range_K[1])
              \/ AnyGe(T_K.v, curve.valid_range_K[2]))
       THEN ErrRange
  ELSE Ok(None)

\* VaporPressureCurveBase._check_temperature_K: None, or the error raised
CheckTemperatureK(curve, T_K, check_range) ==
  IF AnyLe(T_K.v, Zero) THEN ErrPositive
  ELSE IF check_range /\ curve.valid_range_K # NoRange
          /\ (\/ AnyLt(T_K.v, curve.valid_range_K[1])
              \/ AnyGt(T_K.v, curve.valid_range_K[2]))
       THEN ErrRange
  ELSE Ok(None)

\* the Antoine expression self.A - self.B / (T_K + self.C)
AntoineLog10P(curve, t) == NSub(curve.A, NDiv(curve.B, NAdd(t, curve.C)))

\* P_native -> Pa at the end of VaporPressureAntoineCurve._P_Pa_from_K
NativeToPa(curve, P_native) ==
  IF curve.P_unit_native = Pa THEN Ok(P_native)
  ELSE PressureConvert(P_native, curve.P_unit_native, Pa)

\* a slip: np.all instead of np.any in the singularity test (for an element
\* with T_K + C = 0 the division then gives inf under numpy, 10.0 ** -inf
\* is 0.0, and the call returns)
P_Pa_from_K_AllSingular(curve, T_K, check_range) ==
  IF Len(T_K.v) > 0 /\ \A i \in 1 .. Len(T_K.v) : NIsZero(NAdd(T_K.v[i], curve.C))
  THEN ErrSingular
  ELSE Ok([shape |-> T_K.shape,
           v |-> [i \in 1 .. Len(T_K.v) |->
                    IF NIsZero(NAdd(T_K.v[i], curve.C)) THEN Zero
                    ELSE NativeToPa(curve,
                           NPow10(AntoineLog10P(curve, T_K.v[i]))).val]])

\* VaporPressureAntoineCurve._P_Pa_from_K
P_Pa_from_K(curve, T_K, check_range) ==
  IF AnyZero(AddAll(T_K.v, curve.C)) THEN ErrSingular
  ELSE LET Array(r) ==
             IF AnyError(r)
             THEN r[CHOOSE i \in 1 .. Len(r) : ~IsOk(r[i])]
             ELSE Ok([shape |-> T_K.shape,
                      v |-> [i \in 1 .. Len(r) |-> r[i].val]])
       IN  Array([i \in 1 .. Len(T_K.v) |->
                    NativeToPa(curve, NPow10(AntoineLog10P(curve, T_K.v[i])))])

\* a slip: the form-specific formula is entered before the checks, so its
\* singularity error precedes theirs
P_Pa_FormulaFirst(curve, T, check_range) ==
  LET Checked(T_K, chk, r) ==
        IF r = ErrSingular THEN r ELSE IF ~IsOk(chk) THEN chk ELSE r
      Of(T_K) ==
        IF ~IsOk(T_K) THEN T_K
        ELSE Checked(T_K.val, CheckTemperatureK(curve, T_K.val, check_range),
                     P_Pa_from_K(curve, T_K.val, check_range))
  IN  Of(TemperatureToKelvin(curve, T))

\* VaporPressureCurveBase.P_Pa
P_Pa(curve, T, check_range) ==
  LET Checked(T_K, chk) ==
        IF ~IsOk(chk) THEN chk ELSE P_Pa_from_K(curve, T_K, check_range)
      Of(T_K) ==
        IF ~IsOk(T_K) THEN T_K
        ELSE Checked(T_K.val, CheckTemperatureK(curve, T_K.val, check_range))
  IN  Of(TemperatureToKelvin(curve, T))

\* Pressure.convert applied to an array: element-wise
PressureConvertAll(values, unit_from, to) ==
  LET Array(r, s, t) ==
        IF ~IsOk(s) THEN s
        ELSE IF ~IsOk(t) THEN t
        ELSE Ok([shape |-> values.shape,
                 v |-> [i \in 1 .. Len(r) |-> r[i].val]])
  IN  Array([i \in 1 .. Len(values.v) |->
               PressureConvert(values.v[i], unit_from, to)],
            Lookup(TO("Pressure"), unit_from),
            Lookup(TO("Pressure"), to))

\* a slip: the requested unit is ignored and Pascals are returned
P_NoConversion(curve, T, unit, check_range) == P_Pa(curve, T, check_range)

\* VaporPressureCurveBase.P
P(curve, T, unit, check_range) ==
  LET In(P_pa) ==
        IF ~IsOk(P_pa) THEN P_pa
        ELSE IF unit # Pa THEN PressureConvertAll(P_pa.val, Pa, unit)
        ELSE P_pa
  IN  In(P_Pa(curve, T, check_range))

\* VaporPressureAntoineCurve.log10P_native_from_K
log10P_native_from_K(curve, T_K, check_range) ==
  LET Checked(chk) ==
        IF ~IsOk(chk) THEN chk
        ELSE IF AnyZero(AddAll(T_K.v, curve.C)) THEN ErrSingular
        ELSE Ok([shape |-> T_K.shape,
                 v |-> [i \in 1 .. Len(T_K.v) |->
                          AntoineLog10P(curve, T_K.v[i])]])
  IN  Checked(CheckTemperatureK(curve, T_K, check_range))

\* VaporPressureAntoineCurve.P_native_from_K
P_native_from_K(curve, T_K, check_range) ==
  LET Power(l) ==
        IF ~IsOk(l) THEN l
        ELSE Ok([shape |-> l.val.shape,
                 v |-> [i \in 1 .. Len(l.val.v) |-> NPow10(l.val.v[i])]])
  IN  Power(log10P_native_from_K(curve, T_K, check_range))

\* ------------------------------------------------------------------------
\* Hertz-Knudsen-Langmuir flux model (thinfilm/hertz_knudsen.py)
\*
\* A model is the record of the dataclass fields
\*   [vapor_pressure, m_kg, alpha, P_bg_Pa].
\* The square root in the flux is not evaluated: a flux is the record of
\* the factors of alpha * P_net / sqrt(2 pi m_kg k_B T_K).
\* ------------------------------------------------------------------------
\* the generated __init__ of the frozen dataclass: the class defines no
\* __post_init__, so the fields are stored as given
HertzKnudsenLangmuir(vapor_pressure, m_kg, alpha, P_bg_Pa) ==
  Ok([vapor_pressure |-> vapor_pressure, m_kg |-> m_kg, alpha |-> alpha,
      P_bg_Pa |-> P_bg_Pa])

\* HertzKnudsenLangmuir._validate
HKL_validate(self) ==
  IF NLt(self.alpha, Zero) THEN Err("alpha must be >= 0.")
  ELSE IF NLe(self.m_kg, Zero) THEN Err("m_kg must be > 0.")
  ELSE IF NLt(self.P_bg_Pa, Zero) THEN Err("P_bg_Pa must be >= 0.")
  ELSE Ok(None)

\* HertzKnudsenLangmuir._T_to_K
HKL_T_to_K(self, T) ==
  LET Checked(T_K) ==
        IF ~IsOk(T_K) THEN T_K
        ELSE IF AnyLe(T_K.val.v, Zero) THEN ErrPositive
        ELSE T_K
  IN  Checked(TemperatureToKelvin(self.vapor_pressure, T))

\* np.maximum(P_eq - self.P_bg_Pa, 0.0) for one element
PNet(P_eq, P_bg_Pa) ==
  LET Clip(d) == IF NSign(d) > 0 THEN d ELSE Zero
  IN  Clip(NSub(P_eq, P_bg_Pa))

\* self.alpha * P_net / np.sqrt(2.0 * np.pi * self.m_kg * k_B * T_K)
Flux(self, P_net, T_K) ==
  [num |-> NMul(self.alpha, P_net), m_kg |-> self.m_kg, T_K |-> T_K]

\* HertzKnudsenLangmuir.Phi
Phi(self, T, check_range) ==
  LET Out(P_eq, T_K) ==
        IF ~IsOk(T_K) THEN T_K
        ELSE Ok([shape |-> T.shape,
                 v |-> [i \in 1 .. Len(T.v) |->
                          Flux(self, PNet(P_eq.v[i], self.P_bg_Pa),
                               T_K.val.v[i])]])
      WithP(P_eq) ==
        IF ~IsOk(P_eq) THEN P_eq ELSE Out(P_eq.val, HKL_T_to_K(self, T))
      Valid(chk) ==
        IF ~IsOk(chk) THEN chk
        ELSE WithP(P_Pa(self.vapor_pressure, T, check_range))
  IN  Valid(HKL_validate(self))

\* HertzKnudsenLangmuir.Gamma: self.m_kg * Phi(T)
Gamma(self, T, check_range) ==
  LET Mass(phi) ==
        IF ~IsOk(phi) THEN phi
        ELSE Ok([shape |-> phi.val.shape,
                 v |-> [i \in 1 .. Len(phi.val.v) |->
                          [m_kg |-> self.m_kg, Phi |-> phi.val.v[i]]]])
  IN  Mass(Phi(self, T, check_range))

\* ------------------------------------------------------------------------
\* Carrier mobility (sempy.py)
\*
\* The mobilities are powers with a fractional exponent.  A float is
\* followed here by its class only: nan, -inf, negative, zero, positive,
\* +inf.  numpy raises no exception for a division by zero or for an
\* invalid power: it warns and returns inf or nan.
\* ------------------------------------------------------------------------
FClass(x) == IF NSign(x) > 0 THEN "pos" ELSE IF NSign(x) < 0 THEN "neg" ELSE "zero"

FSign(c) == IF c \in {"ninf", "neg"} THEN -1 ELSE IF c = "zero" THEN 0 ELSE 1

FInfinite(c) == c \in {"inf", "ninf"}

FMake(sign, infinite) ==
  IF sign = 0 THEN "zero"
  ELSE IF infinite THEN (IF sign > 0 THEN "inf" ELSE "ninf")
  ELSE IF sign > 0 THEN "pos" ELSE "neg"

\* x * y
FMul(x, y) ==
  IF x = "nan" \/ y = "nan" THEN "nan"
  ELSE IF (x = "zero" /\ FInfinite(y)) \/ (FInfinite(x) /\ y = "zero") THEN "nan"
  ELSE FMake(FSign(x) * FSign(y), FInfinite(x) \/ FInfinite(y))

\* 1.0 / x
FRecip(x) ==
  IF x = "nan" THEN "nan"
  ELSE IF x = "zero" THEN "inf"
  ELSE IF FInfinite(x) THEN "zero"
  ELSE x

\* x / y
FDiv(x, y) ==
  IF x = "nan" \/ y = "nan" THEN "nan"
  ELSE IF x = "zero" /\ y = "zero" THEN "nan"
  ELSE IF FInfinite(x) /\ FInfinite(y) THEN "nan"
  ELSE IF y = "zero" THEN FMake(FSign(x), TRUE)
  ELSE FMul(x, FRecip(y))

\* x + y for operands that are not finite with opposite signs
FAdd(x, y) ==
  CASE x = "nan" \/ y = "nan" -> "nan"
    [] x # "nan" /\ y # "nan" /\ FInfinite(x) /\ FInfinite(y) ->
         IF x = y THEN x ELSE "nan"
    [] x # "nan" /\ y # "nan" /\ FInfinite(x) /\ ~FInfinite(y) -> x
    [] x # "nan" /\ y # "nan" /\ ~FInfinite(x) /\ FInfinite(y) -> y
    [] x = "zero" /\ y \in {"neg", "zero", "pos"} -> y
    [] y = "zero" /\ x \in {"neg", "pos"} -> x
    [] x = y /\ x \in {"neg", "pos"} -> x

\* x ** e for a non-zero, non-integer exponent e
FPow(x, e) ==
  IF x \in {"nan", "neg"} THEN "nan"
  ELSE IF x = "zero" THEN (IF NSign(e) < 0 THEN "inf" ELSE "zero")
  ELSE IF x = "pos" THEN "pos"
  ELSE IF NSign(e) < 0 THEN "zero" ELSE "inf"

\* impurity = None
NoImpurity == [none |-> TRUE]

\* lattice_scattering_mobility: mu_ref * (T / T_ref) ** (-alpha)
lattice_scattering_mobility(T, T_ref, mu_ref, alpha) ==
  [shape |-> T.shape,
   v |-> [i \in 1 .. Len(T.v) |->
            FMul(FClass(mu_ref),
                 FPow(FDiv(FClass(T.v[i]), FClass(T_ref)), NNeg(alpha)))]]

\* impurity_scattering_mobility:
\*   mu_ref * (T / T_ref) ** alpha_T * (NI_ref / NI)
impurity_scattering_mobility(T, NI, T_ref, NI_ref, mu_ref, alpha_T) ==
  [shape |-> T.shape,
   v |-> [i \in 1 .. Len(T.v) |->
            FMul(FMul(FClass(mu_ref),
                      FPow(FDiv(FClass(T.v[i]), FClass(T_ref)), alpha_T)),
                 FDiv(FClass(NI_ref), FClass(NI)))]]

\* CarrierMobilityModel.mu_lattice
mu_lattice(self, T) ==
  Ok(lattice_scattering_mobility(T, self.lattice.T_ref, self.lattice.mu_ref,
                                 self.lattice.alpha))

\* CarrierMobilityModel.mu_impurity
mu_impurity(self, T, NI) ==
  IF self.impurity = NoImpurity
  THEN Err("Impurity parameters not set for this carrier.")
  ELSE Ok(impurity_scattering_mobility(T, NI, self.impurity.T_ref,
                                       self.impurity.NI_ref,
                                       self.impurity.mu_ref,
                                       self.impurity.alpha_T))

\* CarrierMobilityModel.mu_total: 1 / (1 / mu_lat + 1 / mu_imp)
mu_total(self, T, N_I) ==
  LET Matthiessen(mu_lat, mu_imp) ==
        IF ~IsOk(mu_imp) THEN mu_imp
        ELSE Ok([shape |-> mu_lat.shape,
                 v |-> [i \in 1 .. Len(mu_lat.v) |->
                          FRecip(FAdd(FRecip(mu_lat.v[i]),
                                      FRecip(mu_imp.val.v[i])))]])
      Total(mu_lat) ==
        IF self.impurity = NoImpurity THEN mu_lat
        ELSE Matthiessen(mu_lat.val, mu_impurity(self, T, N_I))
  IN  Total(mu_lattice(self, T))

\* CarrierMobilityModel.drift_velocity: mu_total * 1e-4 * E
drift_velocity(self, T, N_I, E) ==
  LET Drift(mu_cm2) ==
        IF ~IsOk(mu_cm2) THEN mu_cm2
        ELSE Ok([shape |-> mu_cm2.val.shape,
                 v |-> [i \in 1 .. Len(mu_cm2.val.v) |->
                          FMul(FMul(mu_cm2.val.v[i], FClass(Dec(1, -4))),
                               FClass(E))]])
  IN  Drift(mu_total(self, T, N_I))

\* ------------------------------------------------------------------------
\* Discretization grid (discretization/grid_1d.py)
\*
\* A grid is the record of the dataclass fields [a, b, N, grid_type]; a and
\* b are exact fractions, N is an int.
\* ------------------------------------------------------------------------
GridType1D == {"LEFT_CLOSED", "RIGHT_CLOSED", "OPEN", "INTERIOR", "MIDPOINT",
               "CLOSED"}

RLe(x, y) == x[1] * y[2] <= y[1] * x[2]

RLt(x, y) == x[1] * y[2] < y[1] * x[2]

\* a slip: b < a instead of b <= a
Grid1D_EqualEndsAccepted(a, b, N, grid_type) ==
  IF RLt(b, a) THEN Err("Require b > a")
  ELSE IF N <= 0 THEN Err("Require N > 0")
  ELSE IF grid_type = "CLOSED" /\ N < 2
       THEN Err("For CLOSED grid, require N >=2")
  ELSE Ok([a |-> a, b |-> b, N |-> N, grid_type |-> grid_type])

\* Grid1D(a, b, N, grid_type): the generated __init__ and __post_init__
Grid1D(a, b, N, grid_type) ==
  IF RLe(b, a) THEN Err("Require b > a")
  ELSE IF N <= 0 THEN Err("Require N > 0")
  ELSE IF grid_type = "CLOSED" /\ N < 2
       THEN Err("For CLOSED grid, require N >=2")
  ELSE Ok([a |-> a, b |-> b, N |-> N, grid_type |-> grid_type])

\* Grid1D.L
Grid_L(self) == RSub(self.b, self.a)

\* Grid1D.dx
Grid_dx(self) ==
  IF self.grid_type = "CLOSED" THEN RDiv(Grid_L(self), RInt(self.N - 1))
  ELSE IF self.grid_type = "OPEN" THEN RDiv(Grid_L(self), RInt(self.N + 1))
  ELSE IF self.grid_type = "INTERIOR" THEN RDiv(Grid_L(self), RInt(self.N + 1))
  ELSE RDiv(Grid_L(self), RInt(self.N))

\* np.linspace(start, stop, num): start + i * step, the last point set to
\* stop when num > 1
Linspace(start, stop, num) ==
  LET Points(step) ==
        [i \in 1 .. num |->
           IF i = num /\ num > 1 THEN stop
           ELSE RAdd(start, RMul(RInt(i - 1), step))]
  IN  Points(RDiv(RSub(stop, start), RInt(num - 1)))

\* self.a + dx * (np.arange(self.N) + shift)
Arange(self, dx, shift) ==
  [i \in 1 .. self.N |-> RAdd(self.a, RMul(dx, RAdd(RInt(i - 1), shift)))]

\* a slip: RIGHT_CLOSED placed like LEFT_CLOSED
Grid_x_arr_RightAsLeft(self) ==
  IF self.grid_type = "LEFT_CLOSED" THEN Arange(self, Grid_dx(self), RInt(0))
  ELSE IF self.grid_type = "RIGHT_CLOSED" THEN Arange(self, Grid_dx(self), RInt(0))
  ELSE IF self.grid_type = "OPEN" THEN Arange(self, Grid_dx(self), RInt(1))
  ELSE IF self.grid_type = "INTERIOR" THEN Arange(self, Grid_dx(self), RInt(1))
  ELSE IF self.grid_type = "MIDPOINT" THEN Arange(self, Grid_dx(self), <<1, 2>>)
  ELSE Linspace(self.a, self.b, self.N)

\* Grid1D.x_arr
Grid_x_arr(self) ==
  IF self.grid_type = "LEFT_CLOSED" THEN Arange(self, Grid_dx(self), RInt(0))
  ELSE IF self.grid_type = "RIGHT_CLOSED" THEN Arange(self, Grid_dx(self), RInt(1))
  ELSE IF self.grid_type = "OPEN" THEN Arange(self, Grid_dx(self), RInt(1))
  ELSE IF self.grid_type = "INTERIOR" THEN Arange(self, Grid_dx(self), RInt(1))
  ELSE IF self.grid_type = "MIDPOINT" THEN Arange(self, Grid_dx(self), <<1, 2>>)
  ELSE Linspace(self.a, self.b, self.N)

\* Grid1D.X
Grid_X(self) == Grid_x_arr(self)

\* ------------------------------------------------------------------------
\* Mole-fraction mixtures (materials/mixtures/molar.py)
\* ------------------------------------------------------------------------
NAbs(x) == IF NSign(x) < 0 THEN NNeg(x) ELSE x

\* X.sum()
RECURSIVE NSum(_)
NSum(v) == IF Len(v) = 0 THEN Zero ELSE NAdd(NSum(SubSeq(v, 1, Len(v) - 1)), v[Len(v)])

\* np.isclose(a, b) with the default rtol = 1e-05 and atol = 1e-08:
\*   absolute(a - b) <= atol + rtol * absolute(b)
IsClose(a, b) ==
  NLe(NAbs(NSub(a, b)), NAdd(Dec(1, -8), NMul(Dec(1, -5), NAbs(b))))

\* MolarMixture(names, X_arr): the generated __init__ and __post_init__
MolarMixture(names, X_arr) ==
  IF Len(names) # Len(X_arr)
  THEN Err("names and X_arr must have the same length")
  ELSE IF AnyLt(X_arr, Zero) THEN Err("Mole fractions must be non-negative")
  ELSE IF ~IsClose(NSum(X_arr), One) THEN Err("Mole fractions must sum to 1")
  ELSE Ok([names |-> names, X_arr |-> X_arr])

\* ------------------------------------------------------------------------
\* Grids, states and operators of the quantum module (core/state.py,
\* core/operator.py, qm/well1d.py)
\*
\* Objects are known by their place in a heap: a grid by its index in the
\* variable grids, a state by its index in the variable states, an operator
\* by its index in the variable operators, an array built by an operator
\* by <<operator, number of the build>>.
\* ------------------------------------------------------------------------

\* InfiniteSquareWell1D(L, n_points).make_grid(): the points of
\* np.linspace(0.0, L, n_points) without the first and the last
make_grid(L, n_points) ==
  LET Inner(x_full) == SubSeq(x_full, 2, Len(x_full) - 1)
  IN  [x |-> Inner(Linspace(RInt(0), L, n_points))]

\* the grid objects that exist at the start: two made alike, and one of a
\* single point
CoreGrids ==
  <<make_grid(RInt(1), 5), make_grid(RInt(1), 5), make_grid(RInt(1), 3)>>

VARIABLES
  grids,      \* the Grid1D objects made so far
  states      \* the Wavefunction1D objects made so far

\* Grid1D.dx (core/state.py)
CoreGrid_dx(grid) ==
  IF Len(grid.x) < 2 THEN Err("Need at least 2 grid points to define dx.")
  ELSE Ok(RSub(grid.x[2], grid.x[1]))

NoMatrix == [none |-> TRUE]

\* InfiniteSquareWellHamiltonian1D(grid): m = 1.0 and hbar = 1.0; builds,
\* accesses, returned and assignments are history: how often _build_matrix
\* ran, how often matrix was read, the arrays those reads returned, and how
\* often an attribute was reassigned
InfiniteSquareWellHamiltonian1D(grid) ==
  [grid |-> grid, m |-> RInt(1), hbar |-> RInt(1), _matrix |-> NoMatrix,
   builds |-> 0, accesses |-> 0, returned |-> {}, assignments |-> 0]

\* InfiniteSquareWellHamiltonian1D._build_matrix
build_matrix(self) ==
  LET N == Len(grids[self.grid].x)
      stencil(i, j) == IF i = j THEN RInt(-2)
                       ELSE IF Abs(i - j) = 1 THEN RInt(1) ELSE RInt(0)
      factor == RNeg(RDiv(RMul(self.hbar, self.hbar),
                          RMul(RInt(2), self.m)))
      H(dx) == [i \in 1 .. N |->
                  [j \in 1 .. N |->
                     RMul(factor, RDiv(stencil(i, j), RMul(dx, dx)))]]
      Built(dx) == IF IsOk(dx) THEN Ok(H(dx.val)) ELSE dx
  IN  Built(CoreGrid_dx(grids[self.grid]))

\* a slip: the matrix is rebuilt on every access, never stored
matrix_NoCache(self, o) ==
  LET Got(b) ==
        IF IsOk(b)
        THEN [self |-> [self EXCEPT
                          !.builds = @ + 1, !.accesses = @ + 1,
                          !.returned =
                            @ \cup {[id |-> <<o, self.builds + 1>>,
                                     rows |-> b.val]}],
              out |-> Ok([id |-> <<o, self.builds + 1>>, rows |-> b.val])]
        ELSE [self |-> [self EXCEPT !.builds = @ + 1, !.accesses = @ + 1],
              out |-> b]
  IN  Got(build_matrix(self))

\* LinearOperator1D.matrix, read on the operator at index o
matrix(self, o) ==
  LET Got(b) ==
        IF IsOk(b)
        THEN [self |-> [self EXCEPT
                          !._matrix = [id |-> <<o, self.builds + 1>>,
                                       rows |-> b.val],
                          !.builds = @ + 1, !.accesses = @ + 1,
                          !.returned =
                            @ \cup {[id |-> <<o, self.builds + 1>>,
                                     rows |-> b.val]}],
              out |-> Ok([id |-> <<o, self.builds + 1>>, rows |-> b.val])]
        ELSE [self |-> [self EXCEPT !.builds = @ + 1, !.accesses = @ + 1],
              out |-> b]
  IN  IF self._matrix = NoMatrix THEN Got(build_matrix(self))
      ELSE [self |-> [self EXCEPT !.accesses = @ + 1,
                                  !.returned = @ \cup {self._matrix}],
            out |-> Ok(self._matrix)]

RECURSIVE RDot(_, _, _)
RDot(row, v, n) ==
  IF n = 0 THEN RInt(0)
  ELSE RAdd(RDot(row, v, n - 1), RMul(row[n], v[n]))

\* rows @ values
MatVec(rows, values) ==
  IF Len(rows) # Len(values) THEN Err("matmul: mismatch in core dimension")
  ELSE Ok([i \in 1 .. Len(rows) |-> RDot(rows[i], values, Len(values))])

\* what apply does once the grids were compared
apply_checked(self, o, psi) ==
  LET Out(mv) ==
        IF IsOk(mv) THEN Ok([grid |-> self.grid, values |-> mv.val]) ELSE mv
      With(got) ==
        [self |-> got.self,
         out |-> IF IsOk(got.out) THEN Out(MatVec(got.out.val.rows, psi.values))
                 ELSE got.out]
  IN  With(matrix(self, o))

\* a slip: grids compared by their points, not by identity
apply_ComparesPoints(self, o, psi) ==
  IF grids[psi.grid] # grids[self.grid]
  THEN [self |-> self,
        out |-> Err("Operator and state must share the same grid.")]
  ELSE apply_checked(self, o, psi)

\* a slip: the matrix is read before the grids are compared
apply_MatrixFirst(self, o, psi) ==
  IF psi.grid # self.grid
  THEN [self |-> matrix(self, o).self,
        out |-> Err("Operator and state must share the same grid.")]
  ELSE apply_checked(self, o, psi)

\* LinearOperator1D.apply, called on the operator at index o
apply(self, o, psi) ==
  IF psi.grid # self.grid
  THEN [self |-> self,
        out |-> Err("Operator and state must share the same grid.")]
  ELSE apply_checked(self, o, psi)

\* operator.name = value: a plain attribute of a plain object
setattr_operator(self, name, value) ==
  [self EXCEPT ![name] = value, !.assignments = @ + 1]

\* InfiniteSquareWell1D(L, n_points): m = 1.0 and hbar = 1.0; made_grids and
\* made_hamiltonians are history: the grids its make_grid returned to a
\* caller outside the class and the operators its make_hamiltonian returned
InfiniteSquareWell1D(L, n_points) ==
  [L |-> L, n_points |-> n_points, m |-> RInt(1), hbar |-> RInt(1),
   made_grids |-> {}, made_hamiltonians |-> {}]

\* InfiniteSquareWell1D.make_hamiltonian, with the grids made so far: the
\* operator is constructed on a grid that this call makes
make_hamiltonian(self, heap) ==
  [grids |-> Append(heap, make_grid(self.L, self.n_points)),
   out |-> [InfiniteSquareWellHamiltonian1D(Len(heap) + 1)
              EXCEPT !.m = self.m, !.hbar = self.hbar]]

\* ------------------------------------------------------------------------
\* Constants containers (constants.py) and the code that reads them
\* (units/mass_molar.py)
\*
\* A class is known by the outcome of getattr for each of its attributes:
\* Ok(value), or Err("AttributeError") once the attribute was deleted.  Of
\* the eleven constants of each class, three are followed.
\* ------------------------------------------------------------------------
ConstantClasses == {"ConstantsSI", "ConstantsCGS"}

ConstantNames == {"N_A", "k_B", "m_u"}

\* the class attributes the dataclass decorator leaves behind: the defaults
ConstantsAtLoad ==
  [c \in ConstantClasses |->
     [n \in ConstantNames |->
        IF n = "N_A" THEN Ok(Lit("N_A"))
        ELSE IF n = "m_u"
             THEN IF c = "ConstantsSI" THEN Ok(Lit("MU"))
                  ELSE Ok(NMul(Lit("MU"), Dec(1, 3)))
        ELSE IF c = "ConstantsSI" THEN Ok(Dec(1380649, -29))
        ELSE Ok(Dec(1380649, -22))]]

\* cls.name = value: type.__setattr__, which frozen=True does not replace
setattr_class(classes, cls, name, value) ==
  [classes |-> [classes EXCEPT ![cls][name] = Ok(value)], out |-> Ok(None)]

\* del cls.name: type.__delattr__
delattr_class(classes, cls, name) ==
  IF IsOk(classes[cls][name])
  THEN [classes |-> [classes EXCEPT ![cls][name] = Err("AttributeError")],
        out |-> Ok(None)]
  ELSE [classes |-> classes, out |-> Err("AttributeError")]

\* cls().name = value: the __setattr__ that frozen=True generates
setattr_instance(classes, cls, name, value) ==
  [classes |-> classes, out |-> Err("FrozenInstanceError")]

\* del cls().name: the __delattr__ that frozen=True generates
delattr_instance(classes, cls, name) ==
  [classes |-> classes, out |-> Err("FrozenInstanceError")]

\* MassLink.particle_from_molar: M_kg_per_mol / ConstantsSI.N_A, the
\* attribute read from the class at the call
particle_from_molar(classes, M_value, M_unit) ==
  LET By(M, N_A) == IF ~IsOk(M) THEN M
                    ELSE IF ~IsOk(N_A) THEN N_A
                    ELSE Ok(NDiv(M.val, N_A.val))
  IN  By(ToCanonical("MolarMass", M_value, M_unit),
         classes["ConstantsSI"]["N_A"])

\* ------------------------------------------------------------------------
\* Parameter bundles: the dataclasses of thinfilm/vapor_pressure.py,
\* thinfilm/hertz_knudsen.py, materials/mixtures/molar.py and sempy.py
\* ------------------------------------------------------------------------
BundleClasses ==
  {"VaporPressureAntoineCurve", "HertzKnudsenLangmuir", "MolarMixture",
   "LatticeMobilityParameters", "ImpurityMobilityParameters",
   "CarrierMobilityModel"}

\* @dataclass(frozen=True) or plain @dataclass
IsFrozen(cls) ==
  CASE cls = "VaporPressureAntoineCurve"  -> TRUE
    [] cls = "HertzKnudsenLangmuir"       -> TRUE
    [] cls = "MolarMixture"               -> TRUE
    [] cls = "LatticeMobilityParameters"  -> FALSE
    [] cls = "ImpurityMobilityParameters" -> FALSE
    [] cls = "CarrierMobilityModel"       -> FALSE

\* obj.name = value on an instance of cls
setattr_bundle(obj, cls, name, value) ==
  IF IsFrozen(cls) THEN [obj |-> obj, out |-> Err("FrozenInstanceError")]
  ELSE [obj |-> [obj EXCEPT ![name] = value], out |-> Ok(None)]

\* ------------------------------------------------------------------------
\* Unit systems (units/systems.py): each class is the mapping from the
\* attributes its body assigns to their values
\* ------------------------------------------------------------------------

UnitsSI ==
  [name |-> "SI", length |-> EnumUnit("Length", 0),
   time |-> EnumUnit("Time", 0), velocity |-> EnumUnit("Velocity", 0),
   mass |-> EnumUnit("Mass", 0), force |-> EnumUnit("Force", 0),
   energy |-> EnumUnit("Energy", 0), torque |-> EnumUnit("Torque", 0),
   pressure |-> EnumUnit("Pressure", 0),
   viscosity |-> EnumUnit("Viscosity", 0),
   temperature |-> EnumUnit("Temperature", 0),
   density |-> EnumUnit("Density", 0), charge |-> EnumUnit("Charge", 0),
   dipole |-> EnumUnit("Dipole", 0),
   electric_field |-> EnumUnit("ElectricField", 0)]

UnitsCGS ==
  [name |-> "CGS", length |-> EnumUnit("Length", 2),
   time |-> EnumUnit("Time", 0), velocity |-> EnumUnit("Velocity", 1),
   mass |-> EnumUnit("Mass", 1), force |-> EnumUnit("Force", 3),
   energy |-> EnumUnit("Energy", 8), torque |-> EnumUnit("Torque", 1),
   pressure |-> EnumUnit("Pressure", 11),
   viscosity |-> EnumUnit("Viscosity", 1),
   temperature |-> EnumUnit("Temperature", 0),
   density |-> EnumUnit("Density", 1), charge |-> EnumUnit("Charge", 1),
   dipole |-> EnumUnit("Dipole", 1),
   electric_field |-> EnumUnit("ElectricField", 3)]

UnitsElectron ==
  [name |-> "lammps.electron", length |-> EnumUnit("Length", 8),
   time |-> EnumUnit("Time", 5), velocity |-> EnumUnit("Velocity", 4),
   mass |-> EnumUnit("Mass", 7), energy |-> EnumUnit("Energy", 13),
   force |-> EnumUnit("Force", 7),
   temperature |-> EnumUnit("Temperature", 0),
   pressure |-> EnumUnit("Pressure", 0), charge |-> EnumUnit("Charge", 2),
   dipole |-> EnumUnit("Dipole", 2),
   electric_field |-> EnumUnit("ElectricField", 1)]

UnitsHartree ==
  [name |-> "hartree", length |-> EnumUnit("Length", 8),
   mass |-> EnumUnit("Mass", 8), time |-> EnumUnit("Time", 9),
   energy |-> EnumUnit("Energy", 13), velocity |-> EnumUnit("Velocity", 5),
   force |-> EnumUnit("Force", 7), charge |-> EnumUnit("Charge", 3),
   electric_field |-> EnumUnit("ElectricField", 4),
   pressure |-> EnumUnit("Pressure", 13),
   density |-> EnumUnit("Density", 4)]

UnitsReal ==
  [name |-> "lammps.real", mass |-> EnumUnit("Mass", 6),
   length |-> EnumUnit("Length", 7), time |-> EnumUnit("Time", 5),
   energy |-> EnumUnit("Energy", 12), velocity |-> EnumUnit("Velocity", 2),
   force |-> EnumUnit("Force", 5), torque |-> EnumUnit("Torque", 7),
   temperature |-> EnumUnit("Temperature", 0),
   pressure |-> EnumUnit("Pressure", 5),
   viscosity |-> EnumUnit("Viscosity", 1),
   charge |-> EnumUnit("Charge", 2), dipole |-> EnumUnit("Dipole", 3),
   electric_field |-> EnumUnit("ElectricField", 2),
   density |-> EnumUnit("Density", 3)]

UnitsMetal ==
  [name |-> "lammps.metal", length |-> EnumUnit("Length", 7),
   time |-> EnumUnit("Time", 4), velocity |-> EnumUnit("Velocity", 3),
   mass |-> EnumUnit("Mass", 6), energy |-> EnumUnit("Energy", 3),
   force |-> EnumUnit("Force", 6), torque |-> EnumUnit("Torque", 4),
   pressure |-> EnumUnit("Pressure", 4),
   viscosity |-> EnumUnit("Viscosity", 1),
   temperature |-> EnumUnit("Temperature", 0),
   density |-> EnumUnit("Density", 1), charge |-> EnumUnit("Charge", 2),
   dipole |-> EnumUnit("Dipole", 3),
   electric_field |-> EnumUnit("ElectricField", 2)]

UnitsImperial ==
  [length |-> EnumUnit("Length", 10), mass |-> EnumUnit("Mass", 4),
   force |-> EnumUnit("Force", 4), pressure |-> EnumUnit("Pressure", 10),
   temperature |-> EnumUnit("Temperature", 4)]

UnitsUSCS ==
  [length |-> EnumUnit("Length", 10), force |-> EnumUnit("Force", 4),
   pressure |-> EnumUnit("Pressure", 10),
   temperature |-> EnumUnit("Temperature", 4)]

UnitSystems == {"UnitsSI", "UnitsCGS", "UnitsImperial", "UnitsUSCS",
                "UnitsMetal", "UnitsReal", "UnitsHartree", "UnitsElectron"}

UnitSystem(system) ==
  CASE system = "UnitsSI"       -> UnitsSI
    [] system = "UnitsCGS"      -> UnitsCGS
    [] system = "UnitsImperial" -> UnitsImperial
    [] system = "UnitsUSCS"     -> UnitsUSCS
    [] system = "UnitsMetal"    -> UnitsMetal
    [] system = "UnitsReal"     -> UnitsReal
    [] system = "UnitsHartree"  -> UnitsHartree
    [] system = "UnitsElectron" -> UnitsElectron

\* the quantity kinds the systems speak of, each with its quantity class
QuantityKinds ==
  {"length", "time", "velocity", "mass", "force", "energy", "torque",
   "pressure", "viscosity", "temperature", "density", "charge", "dipole",
   "electric_field"}

KindQuantity(kind) ==
  CASE kind = "length"         -> "Length"
    [] kind = "time"           -> "Time"
    [] kind = "velocity"       -> "Velocity"
    [] kind = "mass"           -> "Mass"
    [] kind = "force"          -> "Force"
    [] kind = "energy"         -> "Energy"
    [] kind = "torque"         -> "Torque"
    [] kind = "pressure"       -> "Pressure"
    [] kind = "viscosity"      -> "Viscosity"
    [] kind = "temperature"    -> "Temperature"
    [] kind = "density"        -> "Density"
    [] kind = "charge"         -> "Charge"
    [] kind = "dipole"         -> "Dipole"
    [] kind = "electric_field" -> "ElectricField"

\* system.attr: an attribute the class body does not assign raises
getattr_system(system, attr) ==
  IF attr \in DOMAIN UnitSystem(system) THEN Ok(UnitSystem(system)[attr])
  ELSE Err("AttributeError")

\* ------------------------------------------------------------------------
\* The client: one library call per step
\* ------------------------------------------------------------------------
VARIABLES
  op,         \* the function called last
  args,       \* its arguments
  result,     \* Ok(value returned) or Err(exception raised)
  prev,       \* the call before, when this call was fed from it
  operators,  \* the operator objects constructed so far
  constants,  \* the attributes of the constants classes
  bundles,    \* one parameter object of each bundle class
  wells       \* the InfiniteSquareWell1D objects

vars == <<op, args, result, prev, tables, operators, constants, bundles,
          grids, states, wells>>

\* the objects of the quantum module
quantum == <<grids, states, wells>>

\* the objects a unit conversion or a curve evaluation has no hand on
objects == <<operators, constants, bundles, quantum>>

\* longest temperature array passed to a curve
MaxLen == 2

NoCall == [op |-> "none", args |-> None, result |-> None]

Values == {Zero, One, Dec(-40, 0), Dec(15, -1), Dec(760, 0)}

\* a quantity other than q, whose members are foreign to q
OtherThan(q) == IF q = "Pressure" THEN "Energy" ELSE "Pressure"

\* identifiers that are no member of q.Units
Foreign(q) ==
  {ObjUnit} \cup {IntUnit(k) : k \in {-1, 1, 99}}
            \cup {EnumUnit(OtherThan(q), k) : k \in {1, 13}}

UnitArgs(q) == Units(q) \cup Foreign(q)

Dims == {0, 1, 2, 3, 4}

\* only Density.convert takes dim
DimsOf(q) == IF q = "Density" THEN Dims ELSE {3}

Curves ==
  [T_unit : {K, Celsius},
   P_unit : {EnumUnit("Pressure", 4)},
   valid_range_K : {NoRange, <<Dec(300, 0), Dec(400, 0)>>},
   A : {Dec(5, 0)},
   B : {Dec(1000, 0)},
   C : {Zero, Dec(-300, 0)},
   P_unit_native : {Pa, EnumUnit("Pressure", 4), EnumUnit("Pressure", 8)},
   T_unit_native : {K, Celsius}]

TempValues == {Dec(-300, 0), Zero, Dec(2685, -2), Dec(300, 0), Dec(350, 0),
               Dec(400, 0), Dec(500, 0)}

ArrayTemps == {Dec(-300, 0), Zero, Dec(2685, -2), Dec(300, 0), Dec(350, 0)}

TInputs ==
  {[shape |-> "scalar", v |-> <<t>>] : t \in TempValues}
  \cup {[shape |-> "array", v |-> w] :
          w \in UNION {[1 .. n -> ArrayTemps] : n \in 0 .. MaxLen}}

\* no call is in hand: the client is free to make a new one
Idle == op = "none"

\* the client drops the outcome of its last call
Discard ==
  /\ ~Idle
  /\ op' = "none"
  /\ args' = None
  /\ result' = None
  /\ prev' = NoCall
  /\ UNCHANGED <<tables, objects>>

\* X.convert(from_=(value, unit_from), to=to[, dim=dim])
CallConvert ==
  /\ Idle
  /\ \E q \in Quantities, value \in Values :
     \E unit_from \in UnitArgs(q), to \in UnitArgs(q), dim \in DimsOf(q) :
       /\ op' = "convert"
       /\ args' = [q |-> q, value |-> value, unit_from |-> unit_from,
                   to |-> to, dim |-> dim]
       /\ result' = Convert(q, value, unit_from, to, dim)
       /\ prev' = NoCall
       /\ tables' = TablesAfterCall(q)
  /\ UNCHANGED objects

\* Density.convert(from_=(value, unit_from), to=to), no dim given
CallDensityConvertNoDim ==
  /\ Idle
  /\ \E value \in Values :
     \E unit_from \in UnitArgs("Density"), to \in UnitArgs("Density") :
       /\ op' = "convert"
       /\ args' = [q |-> "Density", value |-> value, unit_from |-> unit_from,
                   to |-> to, dim |-> 3, dim_given |-> FALSE]
       /\ result' = DensityConvertNoDim(value, unit_from, to)
       /\ prev' = NoCall
       /\ tables' = TablesAfterCall("Density")
  /\ UNCHANGED objects

\* the value a convert returned is converted back to the unit it came from
CallConvertBack ==
  /\ op = "convert"
  /\ prev = NoCall
  /\ IsOk(result)
  /\ op' = "convert"
  /\ args' = [q |-> args.q, value |-> result.val, unit_from |-> args.to,
              to |-> args.unit_from, dim |-> args.dim]
  /\ result' = Convert(args.q, result.val, args.to, args.unit_from, args.dim)
  /\ prev' = [op |-> op, args |-> args, result |-> result]
  /\ tables' = TablesAfterCall(args.q)
  /\ UNCHANGED objects

\* the convert call just made, failed or not, is made once more with the
\* same arguments
CallConvertAgain ==
  /\ op = "convert"
  /\ prev = NoCall
  /\ op' = "convert"
  /\ args' = args
  /\ result' = Convert(args.q, args.value, args.unit_from, args.to, args.dim)
  /\ prev' = [op |-> op, args |-> args, result |-> result]
  /\ tables' = TablesAfterCall(args.q)
  /\ UNCHANGED objects

\* X.to_canonical(value, unit) / X._to_canonical(value, unit[, dim])
CallToCanonical ==
  /\ Idle
  /\ \E q \in Quantities, value \in Values :
     \E unit \in UnitArgs(q), dim \in DimsOf(q) :
       /\ op' = "to_canonical"
       /\ args' = [q |-> q, value |-> value, unit |-> unit, dim |-> dim]
       /\ result' = HalfTo(q, value, unit, dim)
       /\ prev' = NoCall
       /\ tables' = TablesAfterCall(q)
  /\ UNCHANGED objects

\* X.from_canonical(value, unit) / X._from_canonical(value, unit[, dim])
CallFromCanonical ==
  /\ Idle
  /\ \E q \in Quantities, value \in Values :
     \E unit \in UnitArgs(q), dim \in DimsOf(q) :
       /\ op' = "from_canonical"
       /\ args' = [q |-> q, value |-> value, unit |-> unit, dim |-> dim]
       /\ result' = HalfFrom(q, value, unit, dim)
       /\ prev' = NoCall
       /\ tables' = TablesAfterCall(q)
  /\ UNCHANGED objects

\* the canonical value a to_canonical returned is passed to from_canonical
CallFromCanonicalOfResult ==
  /\ op = "to_canonical"
  /\ IsOk(result)
  /\ \E unit \in Units(args.q) :
       /\ op' = "from_canonical"
       /\ args' = [q |-> args.q, value |-> result.val, unit |-> unit,
                   dim |-> args.dim]
       /\ result' = HalfFrom(args.q, result.val, unit, args.dim)
  /\ prev' = [op |-> op, args |-> args, result |-> result]
  /\ tables' = TablesAfterCall(args.q)
  /\ UNCHANGED objects

\* curve.P_Pa(T, check_range)
CallP_Pa ==
  /\ Idle
  /\ \E curve \in Curves, T \in TInputs, check_range \in BOOLEAN :
       /\ op' = "P_Pa"
       /\ args' = [curve |-> curve, T |-> T, check_range |-> check_range]
       /\ result' = P_Pa(curve, T, check_range)
       /\ prev' = NoCall
  /\ UNCHANGED <<tables, objects>>

\* curve.P(T, unit, check_range), after P_Pa was called with the same
\* curve, T and check_range
CallP ==
  /\ op = "P_Pa"
  /\ \E unit \in Units("Pressure") :
       /\ op' = "P"
       /\ args' = [curve |-> args.curve, T |-> args.T,
                   check_range |-> args.check_range, unit |-> unit]
       /\ result' = P(args.curve, args.T, unit, args.check_range)
  /\ prev' = [op |-> op, args |-> args, result |-> result]
  /\ UNCHANGED <<tables, objects>>

\* curve._P_Pa_from_K(T_K, check_range), called directly
CallP_Pa_from_K ==
  /\ Idle
  /\ \E curve \in Curves, T_K \in TInputs, check_range \in BOOLEAN :
       /\ op' = "_P_Pa_from_K"
       /\ args' = [curve |-> curve, T |-> T_K, check_range |-> check_range]
       /\ result' = P_Pa_from_K(curve, T_K, check_range)
       /\ prev' = NoCall
  /\ UNCHANGED <<tables, objects>>

\* curve.log10P_native_from_K(T_K, check_range)
CallLog10P_native_from_K ==
  /\ Idle
  /\ \E curve \in Curves, T_K \in TInputs, check_range \in BOOLEAN :
       /\ op' = "log10P_native_from_K"
       /\ args' = [curve |-> curve, T |-> T_K, check_range |-> check_range]
       /\ result' = log10P_native_from_K(curve, T_K, check_range)
       /\ prev' = NoCall
  /\ UNCHANGED <<tables, objects>>

\* curve.P_native_from_K(T_K, check_range)
CallP_native_from_K ==
  /\ Idle
  /\ \E curve \in Curves, T_K \in TInputs, check_range \in BOOLEAN :
       /\ op' = "P_native_from_K"
       /\ args' = [curve |-> curve, T |-> T_K, check_range |-> check_range]
       /\ result' = P_native_from_K(curve, T_K, check_range)
       /\ prev' = NoCall
  /\ UNCHANGED <<tables, objects>>

\* the curves handed to a flux model
HKLCurves ==
  {c \in Curves : c.C = Zero /\ c.P_unit_native = Pa /\ c.T_unit_native = K}

\* constructor arguments of a flux model, valid and invalid
HKLParams ==
  [m_kg : {Dec(-1, 0), Zero, One}, alpha : {Dec(-1, 0), Zero, One},
   P_bg_Pa : {Dec(-1, 0), Zero}]

LatticeParams == [T_ref |-> Dec(300, 0), mu_ref |-> Dec(1400, 0),
                  alpha |-> Dec(15, -1)]

ImpurityParams == [T_ref |-> Dec(300, 0), NI_ref |-> Dec(1, 16),
                   mu_ref |-> Dec(1000, 0), alpha_T |-> Dec(15, -1)]

MobilityModels ==
  {[m_eff |-> One, lattice |-> LatticeParams, impurity |-> i] :
     i \in {NoImpurity, ImpurityParams}}

Concentrations == {Zero, Dec(1, 16)}

\* HertzKnudsenLangmuir(vapor_pressure, m_kg, alpha, P_bg_Pa)
CallHertzKnudsenLangmuir ==
  /\ Idle
  /\ \E c \in HKLCurves, p \in HKLParams :
       /\ op' = "HertzKnudsenLangmuir"
       /\ args' = [vapor_pressure |-> c, m_kg |-> p.m_kg, alpha |-> p.alpha,
                   P_bg_Pa |-> p.P_bg_Pa]
       /\ result' = HertzKnudsenLangmuir(c, p.m_kg, p.alpha, p.P_bg_Pa)
       /\ prev' = NoCall
  /\ UNCHANGED <<tables, objects>>

\* model.Phi(T, check_range) on a model that was constructed
CallPhi ==
  /\ op = "HertzKnudsenLangmuir"
  /\ IsOk(result)
  /\ \E T \in TInputs, check_range \in BOOLEAN :
       /\ op' = "Phi"
       /\ args' = [self |-> result.val, T |-> T, check_range |-> check_range]
       /\ result' = Phi(result.val, T, check_range)
  /\ prev' = [op |-> op, args |-> args, result |-> result]
  /\ UNCHANGED <<tables, objects>>

\* model.Gamma(T, check_range) on a model that was constructed
CallGamma ==
  /\ op = "HertzKnudsenLangmuir"
  /\ IsOk(result)
  /\ \E T \in TInputs, check_range \in BOOLEAN :
       /\ op' = "Gamma"
       /\ args' = [self |-> result.val, T |-> T, check_range |-> check_range]
       /\ result' = Gamma(result.val, T, check_range)
  /\ prev' = [op |-> op, args |-> args, result |-> result]
  /\ UNCHANGED <<tables, objects>>

\* lattice_scattering_mobility(T, T_ref, mu_ref, alpha)
CallLatticeMobility ==
  /\ Idle
  /\ \E T \in TInputs :
       /\ op' = "lattice_scattering_mobility"
       /\ args' = [T |-> T, params |-> LatticeParams]
       /\ result' = Ok(lattice_scattering_mobility(T, LatticeParams.T_ref,
                         LatticeParams.mu_ref, LatticeParams.alpha))
       /\ prev' = NoCall
  /\ UNCHANGED <<tables, objects>>

\* impurity_scattering_mobility(T, NI, T_ref, NI_ref, mu_ref, alpha_T)
CallImpurityMobility ==
  /\ Idle
  /\ \E T \in TInputs, NI \in Concentrations :
       /\ op' = "impurity_scattering_mobility"
       /\ args' = [T |-> T, NI |-> NI, params |-> ImpurityParams]
       /\ result' = Ok(impurity_scattering_mobility(T, NI,
                         ImpurityParams.T_ref, ImpurityParams.NI_ref,
                         ImpurityParams.mu_ref, ImpurityParams.alpha_T))
       /\ prev' = NoCall
  /\ UNCHANGED <<tables, objects>>

\* model.mu_total(T, N_I)
CallMuTotal ==
  /\ Idle
  /\ \E self \in MobilityModels, T \in TInputs, N_I \in Concentrations :
       /\ op' = "mu_total"
       /\ args' = [self |-> self, T |-> T, NI |-> N_I]
       /\ result' = mu_total(self, T, N_I)
       /\ prev' = NoCall
  /\ UNCHANGED <<tables, objects>>

\* model.drift_velocity(T, N_I, E)
CallDriftVelocity ==
  /\ Idle
  /\ \E self \in MobilityModels, T \in TInputs, N_I \in Concentrations :
       /\ op' = "drift_velocity"
       /\ args' = [self |-> self, T |-> T, NI |-> N_I, E |-> One]
       /\ result' = drift_velocity(self, T, N_I, One)
       /\ prev' = NoCall
  /\ UNCHANGED <<tables, objects>>

\* most grid points asked for
MaxN == 4

GridLefts == {<<-1, 1>>, <<0, 1>>, <<1, 2>>}

GridRights == {<<0, 1>>, <<1, 1>>, <<5, 2>>}

\* Grid1D(a, b, N, grid_type)
CallGrid1D ==
  /\ Idle
  /\ \E a \in GridLefts, b \in GridRights, N \in -1 .. MaxN,
        grid_type \in GridType1D :
       /\ op' = "Grid1D"
       /\ args' = [a |-> a, b |-> b, N |-> N, grid_type |-> grid_type]
       /\ result' = Grid1D(a, b, N, grid_type)
       /\ prev' = NoCall
  /\ UNCHANGED <<tables, objects>>

\* grid.X on a grid that was constructed
CallX ==
  /\ op = "Grid1D"
  /\ IsOk(result)
  /\ op' = "X"
  /\ args' = [self |-> result.val]
  /\ result' = Ok(Grid_X(result.val))
  /\ prev' = [op |-> op, args |-> args, result |-> result]
  /\ UNCHANGED <<tables, objects>>

\* most species in a mixture
MaxSpecies == 2

SpeciesNames == <<"A", "B", "C", "D">>

\* mole fractions, with sums at, near and away from one
Fractions == {Dec(-5, -1), Zero, Dec(3, -1), Dec(5, -1), Dec(5000005, -7),
              Dec(500005, -6), Dec(50002, -5), One, Dec(15, -1)}

\* MolarMixture(names, X_arr)
CallMolarMixture ==
  /\ Idle
  /\ \E n \in 0 .. MaxSpecies, m \in 0 .. MaxSpecies :
     \E X_arr \in [1 .. m -> Fractions] :
       /\ op' = "MolarMixture"
       /\ args' = [names |-> SubSeq(SpeciesNames, 1, n), X_arr |-> X_arr]
       /\ result' = MolarMixture(SubSeq(SpeciesNames, 1, n), X_arr)
       /\ prev' = NoCall
  /\ UNCHANGED <<tables, objects>>

\* system.attr, for the name of a unit system or its unit of a quantity kind
CallGetattrSystem ==
  /\ Idle
  /\ \E system \in UnitSystems, attr \in QuantityKinds \cup {"name"} :
       /\ op' = "getattr_system"
       /\ args' = [system |-> system, attr |-> attr]
       /\ result' = getattr_system(system, attr)
       /\ prev' = NoCall
  /\ UNCHANGED <<tables, objects>>

\* the state objects that exist at the start: Wavefunction1D(grid, values)
\* validates nothing
InputStates ==
  << [grid |-> 1, values |-> <<RInt(1), RInt(0), RInt(0)>>],
     [grid |-> 1, values |-> <<RInt(1), RInt(1)>>],
     [grid |-> 2, values |-> <<RInt(1), RInt(0), RInt(0)>>],
     [grid |-> 2, values |-> <<RInt(1), RInt(1)>>],
     [grid |-> 3, values |-> <<RInt(1), RInt(1)>>] >>

\* the wells that exist: one of five points, one of three
WellsAtConstruction ==
  <<InfiniteSquareWell1D(RInt(1), 5), InfiniteSquareWell1D(RInt(1), 3)>>

\* the parameter objects, as constructed
BundlesAtConstruction ==
  [cls \in BundleClasses |->
     CASE cls = "VaporPressureAntoineCurve" ->
            [T_unit |-> K, P_unit |-> Pa, valid_range_K |-> NoRange,
             A |-> Dec(5, 0), B |-> Dec(1000, 0), C |-> Zero,
             P_unit_native |-> Pa, T_unit_native |-> K]
       [] cls = "HertzKnudsenLangmuir" ->
            [m_kg |-> One, alpha |-> One, P_bg_Pa |-> Zero]
       [] cls = "MolarMixture" ->
            [names |-> <<"A", "B">>, X_arr |-> <<Dec(5, -1), Dec(5, -1)>>]
       [] cls = "LatticeMobilityParameters" -> LatticeParams
       [] cls = "ImpurityMobilityParameters" -> ImpurityParams
       [] cls = "CarrierMobilityModel" -> [m_eff |-> One]]

Init ==
  /\ op = "none"
  /\ args = None
  /\ result = None
  /\ prev = NoCall
  /\ tables = TablesAtLoad
  /\ operators = <<>>
  /\ constants = ConstantsAtLoad
  /\ bundles = BundlesAtConstruction
  /\ grids = CoreGrids
  /\ states = InputStates
  /\ wells = WellsAtConstruction

Next ==
  \/ CallConvert
  \/ CallDensityConvertNoDim
  \/ CallConvertBack
  \/ CallConvertAgain
  \/ CallToCanonical
  \/ CallFromCanonical
  \/ CallFromCanonicalOfResult
  \/ CallP_Pa
  \/ CallP
  \/ CallP_Pa_from_K
  \/ CallLog10P_native_from_K
  \/ CallP_native_from_K
  \/ CallHertzKnudsenLangmuir
  \/ CallPhi
  \/ CallGamma
  \/ CallLatticeMobility
  \/ CallImpurityMobility
  \/ CallMuTotal
  \/ CallDriftVelocity
  \/ CallGrid1D
  \/ CallX
  \/ CallMolarMixture
  \/ CallGetattrSystem
  \/ Discard

Spec == Init /\ [][Next]_vars

\* ------------------------------------------------------------------------
\* The operator client: operators are constructed on the grids, their
\* matrix is read and they are applied to states
\* ------------------------------------------------------------------------
\* most operators constructed
MaxOperators == 1

\* most reads of one operator's matrix
MaxAccesses == 3

\* most grids made
MaxGrids == 5

\* most states made, by the client or by apply
MaxStates == 7

StateValues == {<<RInt(1), RInt(0), RInt(0)>>, <<RInt(1), RInt(1)>>}

\* InfiniteSquareWellHamiltonian1D(grid)
NewOperator ==
  /\ Len(operators) < MaxOperators
  /\ \E g \in 1 .. Len(grids) :
       /\ operators' = Append(operators, InfiniteSquareWellHamiltonian1D(g))
       /\ op' = "InfiniteSquareWellHamiltonian1D"
       /\ args' = [grid |-> g]
       /\ result' = Ok(Len(operators) + 1)
  /\ prev' = NoCall
  /\ UNCHANGED <<tables, constants, bundles, quantum>>

\* operator.matrix
ReadMatrix ==
  /\ \E o \in 1 .. Len(operators) :
       /\ operators[o].accesses < MaxAccesses
       /\ LET got == matrix(operators[o], o)
          IN  /\ operators' = [operators EXCEPT ![o] = got.self]
              /\ result' = got.out
       /\ op' = "matrix"
       /\ args' = [self |-> o]
  /\ prev' = NoCall
  /\ UNCHANGED <<tables, constants, bundles, quantum>>

\* operator.apply(psi), psi the state at index at: the state returned is a
\* new object, made while there is room for one
CallApply ==
  /\ \E o \in 1 .. Len(operators), at \in 1 .. Len(states) :
       /\ operators[o].accesses < MaxAccesses
       /\ LET Returned(self, out) ==
                /\ IsOk(out) => Len(states) < MaxStates
                /\ operators' = [operators EXCEPT ![o] = self]
                /\ states' = IF IsOk(out) THEN Append(states, out.val)
                             ELSE states
                /\ result' = IF IsOk(out)
                             THEN Ok([at |-> Len(states) + 1,
                                      grid |-> out.val.grid,
                                      values |-> out.val.values])
                             ELSE out
              Got(got) == Returned(got.self, got.out)
          IN  Got(apply(operators[o], o, states[at]))
       /\ op' = "apply"
       /\ args' = [self |-> o, at |-> at, psi |-> states[at]]
  /\ prev' = NoCall
  /\ UNCHANGED <<tables, constants, bundles, grids, wells>>

OperatorNext ==
  \/ NewOperator
  \/ ReadMatrix
  \/ CallApply

OperatorSpec == Init /\ [][OperatorNext]_vars

\* values assigned to m and hbar
AssignedFloats == {RInt(2)}

\* most reassignments of operator attributes
MaxAssignments == 1

RECURSIVE Assignments(_)
Assignments(n) ==
  IF n = 0 THEN 0 ELSE Assignments(n - 1) + operators[n].assignments

\* operator.m = value, operator.hbar = value, operator.grid = grid
SetOperatorAttr ==
  /\ \E o \in 1 .. Len(operators), name \in {"m", "hbar", "grid"} :
     \E value \in IF name = "grid" THEN 1 .. Len(grids) ELSE AssignedFloats :
       /\ Assignments(Len(operators)) < MaxAssignments
       /\ operators' =
            [operators EXCEPT ![o] = setattr_operator(@, name, value)]
       /\ op' = "setattr_operator"
       /\ args' = [self |-> o, name |-> name, value |-> value]
       /\ result' = Ok(None)
  /\ prev' = NoCall
  /\ UNCHANGED <<tables, constants, bundles, quantum>>

ReassignNext ==
  \/ OperatorNext
  \/ SetOperatorAttr

\* the operator client that also reassigns attributes of its operators
ReassignSpec == Init /\ [][ReassignNext]_vars

\* well.make_grid()
CallMakeGrid ==
  /\ Len(grids) < MaxGrids
  /\ \E w \in 1 .. Len(wells) :
       /\ grids' = Append(grids, make_grid(wells[w].L, wells[w].n_points))
       /\ wells' = [wells EXCEPT ![w].made_grids = @ \cup {Len(grids) + 1}]
       /\ op' = "make_grid"
       /\ args' = [self |-> w]
       /\ result' = Ok(Len(grids) + 1)
  /\ prev' = NoCall
  /\ UNCHANGED <<tables, operators, constants, bundles, states>>

\* well.make_hamiltonian()
CallMakeHamiltonian ==
  /\ Len(grids) < MaxGrids
  /\ Len(operators) < MaxOperators
  /\ \E w \in 1 .. Len(wells) :
       /\ LET got == make_hamiltonian(wells[w], grids)
          IN  /\ grids' = got.grids
              /\ operators' = Append(operators, got.out)
       /\ wells' = [wells EXCEPT
                      ![w].made_hamiltonians = @ \cup {Len(operators) + 1}]
       /\ op' = "make_hamiltonian"
       /\ args' = [self |-> w]
       /\ result' = Ok(Len(operators) + 1)
  /\ prev' = NoCall
  /\ UNCHANGED <<tables, constants, bundles, states>>

\* Wavefunction1D(grid, values)
NewWavefunction ==
  /\ Len(states) < MaxStates
  /\ \E g \in 1 .. Len(grids), v \in StateValues :
       /\ states' = Append(states, [grid |-> g, values |-> v])
       /\ op' = "Wavefunction1D"
       /\ args' = [grid |-> g, values |-> v]
       /\ result' = Ok(Len(states) + 1)
  /\ prev' = NoCall
  /\ UNCHANGED <<tables, operators, constants, bundles, grids, wells>>

WellNext ==
  \/ CallMakeGrid
  \/ CallMakeHamiltonian
  \/ NewWavefunction
  \/ CallApply

\* the client of the wells
WellSpec == Init /\ [][WellNext]_vars

\* ------------------------------------------------------------------------
\* The float client: Temperature.convert is called on floats
\* ------------------------------------------------------------------------
DoubleValues ==
  {DInt(0), DInt(1), DInt(32), DInt(-40), DInt(1000), DDec(27315, 2),
   DDec(-45967, 2), DDec(49167, 2)}

\* Temperature.convert(from_=(value, unit_from), to=to) with float value
CallTemperatureConvert64 ==
  /\ Idle
  /\ \E value \in DoubleValues :
     \E unit_from \in Units("Temperature"), to \in Units("Temperature") :
       /\ op' = "convert64"
       /\ args' = [value |-> value, unit_from |-> unit_from, to |-> to]
       /\ result' = Ok(TemperatureConvert64(value, unit_from, to))
       /\ prev' = NoCall
  /\ UNCHANGED <<tables, objects>>

FloatNext ==
  \/ CallTemperatureConvert64
  \/ Discard

FloatSpec == Init /\ [][FloatNext]_vars

\* ------------------------------------------------------------------------
\* The constants client: attributes of the constants classes and of their
\* instances are assigned and deleted, and MassLink is called
\* ------------------------------------------------------------------------
AssignedValues == {One}

\* setattr(cls, name, value)
SetClassAttr ==
  /\ \E cls \in ConstantClasses, name \in ConstantNames,
        value \in AssignedValues :
       /\ LET got == setattr_class(constants, cls, name, value)
          IN  /\ constants' = got.classes
              /\ result' = got.out
       /\ op' = "setattr"
       /\ args' = [on |-> "class", cls |-> cls, name |-> name,
                   value |-> value]
  /\ prev' = NoCall
  /\ UNCHANGED <<tables, operators, bundles, quantum>>

\* delattr(cls, name)
DelClassAttr ==
  /\ \E cls \in ConstantClasses, name \in ConstantNames :
       /\ LET got == delattr_class(constants, cls, name)
          IN  /\ constants' = got.classes
              /\ result' = got.out
       /\ op' = "delattr"
       /\ args' = [on |-> "class", cls |-> cls, name |-> name]
  /\ prev' = NoCall
  /\ UNCHANGED <<tables, operators, bundles, quantum>>

\* setattr(cls(), name, value)
SetInstanceAttr ==
  /\ \E cls \in ConstantClasses, name \in ConstantNames,
        value \in AssignedValues :
       /\ LET got == setattr_instance(constants, cls, name, value)
          IN  /\ constants' = got.classes
              /\ result' = got.out
       /\ op' = "setattr"
       /\ args' = [on |-> "instance", cls |-> cls, name |-> name,
                   value |-> value]
  /\ prev' = NoCall
  /\ UNCHANGED <<tables, operators, bundles, quantum>>

\* delattr(cls(), name)
DelInstanceAttr ==
  /\ \E cls \in ConstantClasses, name \in ConstantNames :
       /\ LET got == delattr_instance(constants, cls, name)
          IN  /\ constants' = got.classes
              /\ result' = got.out
       /\ op' = "delattr"
       /\ args' = [on |-> "instance", cls |-> cls, name |-> name]
  /\ prev' = NoCall
  /\ UNCHANGED <<tables, operators, bundles, quantum>>

\* MassLink.particle_from_molar(M_value, M_unit)
CallParticleFromMolar ==
  /\ \E M_value \in {One, Dec(18, 0)}, M_unit \in Units("MolarMass") :
       /\ op' = "particle_from_molar"
       /\ args' = [M_value |-> M_value, M_unit |-> M_unit]
       /\ result' = particle_from_molar(constants, M_value, M_unit)
  /\ prev' = NoCall
  /\ UNCHANGED <<tables, operators, constants, bundles, quantum>>

ConstantsNext ==
  \/ SetClassAttr
  \/ DelClassAttr
  \/ SetInstanceAttr
  \/ DelInstanceAttr
  \/ CallParticleFromMolar

ConstantsSpec == Init /\ [][ConstantsNext]_vars

\* ------------------------------------------------------------------------
\* The bundle client: fields of the parameter objects are reassigned and
\* the lattice mobility is evaluated from the parameter object
\* ------------------------------------------------------------------------
\* obj.name = value
SetField ==
  /\ \E cls \in BundleClasses, value \in {Zero} :
     \E name \in DOMAIN bundles[cls] :
       /\ LET got == setattr_bundle(bundles[cls], cls, name, value)
          IN  /\ bundles' = [bundles EXCEPT ![cls] = got.obj]
              /\ result' = got.out
       /\ op' = "setattr"
       /\ args' = [cls |-> cls, name |-> name, value |-> value]
  /\ prev' = NoCall
  /\ UNCHANGED <<tables, operators, constants, quantum>>

\* lattice_scattering_mobility(T=T, **lattice.kwargs)
CallMobilityOfBundle ==
  /\ \E T \in {[shape |-> "scalar", v |-> <<Dec(300, 0)>>]} :
       /\ op' = "lattice_scattering_mobility"
       /\ args' = [T |-> T, params |-> bundles["LatticeMobilityParameters"]]
       /\ result' =
            Ok(lattice_scattering_mobility(T,
                 bundles["LatticeMobilityParameters"].T_ref,
                 bundles["LatticeMobilityParameters"].mu_ref,
                 bundles["LatticeMobilityParameters"].alpha))
  /\ prev' = NoCall
  /\ UNCHANGED <<tables, operators, constants, bundles, quantum>>

BundleNext ==
  \/ SetField
  \/ CallMobilityOfBundle

BundleSpec == Init /\ [][BundleNext]_vars

\* ------------------------------------------------------------------------
\* Properties
\* ------------------------------------------------------------------------
IsConvert == op = "convert"

MemberUnits == args.unit_from \in Units(args.q) /\ args.to \in Units(args.q)

\* C1: convert fails, and returns no value, whenever the source unit or the
\* target unit is not a member of the quantity's own Units enumeration (an
\* arbitrary object, a bare integer, a member of another enumeration).
C1_ForeignUnitFails ==
  (IsConvert /\ ~MemberUnits) => ~IsOk(result)

ScaleOf(q, u, dim) ==
  IF q = "Density" /\ u.ord \in {1, 4} THEN NPow(TableAtLoad(q)[u.ord + 1], dim)
  ELSE TableAtLoad(q)[u.ord + 1]

OffsetOf(u) == Temperature_OFFSET_TO_K[u.ord + 1]

\* (value*scale[from] + offset[from] - offset[to]) / scale[to] for
\* Temperature, value*scale[from]/scale[to] for the other quantities
ConvertFormula(q, value, unit_from, to, dim) ==
  IF q = "Temperature"
  THEN NDiv(NSub(NAdd(NMul(value, ScaleOf(q, unit_from, dim)), OffsetOf(unit_from)),
                 OffsetOf(to)),
            ScaleOf(q, to, dim))
  ELSE NDiv(NMul(value, ScaleOf(q, unit_from, dim)), ScaleOf(q, to, dim))

Fixed3D == {EnumUnit("Density", 2), EnumUnit("Density", 3)}

\* C4: Density.convert fails with a validation error when dim is not 1, 2
\* or 3, and when the source or the target unit is a fixed-3D unit while
\* dim # 3; for every other combination of units and dim it returns a value.
C4_DensityDim ==
  (IsConvert /\ args.q = "Density" /\ MemberUnits)
  => IF \/ args.dim \notin {1, 2, 3}
        \/ (args.dim # 3 /\ (args.unit_from \in Fixed3D \/ args.to \in Fixed3D))
     THEN result = Err("ValueError")
     ELSE IsOk(result)

\* a conversion to g_per_cm3 asked for in two dimensions was refused
C4_Witness ==
  /\ IsConvert
  /\ args.q = "Density"
  /\ args.unit_from = EnumUnit("Density", 0)
  /\ args.to = EnumUnit("Density", 3)
  /\ args.dim = 2
  /\ result = Err("ValueError")

\* the kelvin value of an input temperature of the curve's T_unit
KelvinOf(curve, t) ==
  IF curve.T_unit = Celsius THEN NAdd(t, Dec(27315, -2)) ELSE t

KelvinsOf(curve, T) == [i \in 1 .. Len(T.v) |-> KelvinOf(curve, T.v[i])]

OutOfRange(curve, t_K) ==
  /\ curve.valid_range_K # NoRange
  /\ (NLt(t_K, curve.valid_range_K[1]) \/ NLt(curve.valid_range_K[2], t_K))

AnyOutOfRange(curve, v) == \E i \in 1 .. Len(v) : OutOfRange(curve, v[i])

\* C5: P_Pa rejects every input whose kelvin value is <= 0, for both values
\* of check_range, with or without a declared interval, and for an array as
\* soon as one element is non-positive.
C5_NonPositiveRejected ==
  (/\ op = "P_Pa"
   /\ AnyLe(KelvinsOf(args.curve, args.T), Zero))
  => result = ErrPositive

\* an array with one element at 0 K and one good element was refused
\* although no range was declared and no range check was asked for
C5_Witness ==
  /\ op = "P_Pa"
  /\ args.curve.T_unit = K
  /\ args.curve.valid_range_K = NoRange
  /\ ~args.check_range
  /\ args.T = [shape |-> "array", v |-> <<Dec(350, 0), Zero>>]
  /\ result = ErrPositive

\* C6: P_Pa rejects a positive kelvin temperature for being out of range
\* exactly when check_range is true, an interval is declared and some
\* T_K < T_min or T_K > T_max; the endpoints are accepted.
C6_RangeRejectedExactly ==
  (/\ op = "P_Pa"
   /\ ~AnyLe(KelvinsOf(args.curve, args.T), Zero))
  => (result = ErrRange
      <=> /\ args.check_range
          /\ AnyOutOfRange(args.curve, KelvinsOf(args.curve, args.T)))

\* the upper endpoint T_max = 400 K was evaluated under a range check
C6_Witness ==
  /\ op = "P_Pa"
  /\ args.curve.T_unit = K
  /\ args.curve.valid_range_K = <<Dec(300, 0), Dec(400, 0)>>
  /\ args.check_range
  /\ args.T = [shape |-> "scalar", v |-> <<Dec(400, 0)>>]
  /\ IsOk(result)

\* T_K re-expressed in the unit declared for the coefficient table
TCoeff(curve, t_K) ==
  IF curve.T_unit_native = Celsius THEN NSub(t_K, Dec(27315, -2)) ELSE t_K

\* C7: the Antoine form evaluates log10(P_native) = A - B/(T_coeff + C)
\* with T_coeff the kelvin temperature re-expressed in the declared unit of
\* the coefficient table: T_K for Kelvin, T_K - 273.15 for Celsius.
C7_AntoineUsesTCoeff ==
  (op = "_P_Pa_from_K" /\ IsOk(result))
  => \A i \in 1 .. Len(args.T.v) :
       LET t == TCoeff(args.curve, args.T.v[i])
           den == NAdd(t, args.curve.C)
       IN  ~NIsZero(den)
           => Ok(result.val.v[i])
              = NativeToPa(args.curve,
                           NPow10(NSub(args.curve.A, NDiv(args.curve.B, den))))

C9_PIsConvertedP_Pa ==
  (op = "P" /\ prev.op = "P_Pa")
  => /\ IsOk(result) <=> IsOk(prev.result)
     /\ IsOk(prev.result)
        => /\ result = PressureConvertAll(prev.result.val, Pa, args.unit)
           /\ args.unit = Pa => result = prev.result
     /\ ~IsOk(prev.result) => result = prev.result

\* a two-element result of P_Pa was returned by P in Torr
C9_Witness ==
  /\ op = "P"
  /\ prev.op = "P_Pa"
  /\ args.unit = EnumUnit("Pressure", 8)
  /\ IsOk(prev.result)
  /\ Len(prev.result.val.v) = 2
  /\ IsOk(result)
  /\ result # prev.result

\* C10: no evaluation method of the Antoine form (_P_Pa_from_K,
\* log10P_native_from_K, P_native_from_K) rejects a temperature for lying
\* outside valid_range_K.
C10_AntoineNeverChecksRange ==
  op \in {"_P_Pa_from_K", "log10P_native_from_K", "P_native_from_K"}
  => result # ErrRange

\* C11: constructing a HertzKnudsenLangmuir model with m_kg <= 0, alpha < 0
\* or P_bg_Pa < 0 fails at construction time.
C11_InvalidModelNotConstructed ==
  (/\ op = "HertzKnudsenLangmuir"
   /\ (\/ NLe(args.m_kg, Zero)
       \/ NLt(args.alpha, Zero)
       \/ NLt(args.P_bg_Pa, Zero)))
  => ~IsOk(result)

\* the temperatures of a mobility or flux evaluation, in kelvin
EvalKelvins ==
  IF op \in {"Phi", "Gamma"}
  THEN KelvinsOf(args.self.vapor_pressure, args.T)
  ELSE args.T.v

\* C12: lattice_scattering_mobility, impurity_scattering_mobility, mu_total,
\* drift_velocity, Phi and Gamma each fail with an error when any input
\* temperature is <= 0 K.
C12_NonPositiveTRejected ==
  (/\ op \in {"lattice_scattering_mobility", "impurity_scattering_mobility",
              "mu_total", "drift_velocity", "Phi", "Gamma"}
   /\ AnyLe(EvalKelvins, Zero))
  => ~IsOk(result)

ValidGrid(g) ==
  /\ RLt(g.a, g.b)
  /\ g.N >= 1
  /\ g.grid_type = "CLOSED" => g.N >= 2

\* C15: constructing a grid fails exactly when b <= a, or N <= 0, or the
\* convention is CLOSED and N < 2; a grid that was constructed holds the
\* arguments it was given and meets a < b, N >= 1, and N >= 2 when CLOSED.
C15_GridValidated ==
  /\ op = "Grid1D" =>
       /\ IsOk(result) <=> ValidGrid(args)
       /\ IsOk(result) => result.val = args
  /\ op = "X" => ValidGrid(args.self)

C15_Witness ==
  /\ op = "Grid1D"
  /\ args.grid_type = "CLOSED"
  /\ args.N = 1
  /\ RLt(args.a, args.b)
  /\ ~IsOk(result)

\* the spacing each convention is said to have
SpacingOf(g) ==
  CASE g.grid_type = "CLOSED" -> RDiv(RSub(g.b, g.a), RInt(g.N - 1))
    [] g.grid_type \in {"OPEN", "INTERIOR"} ->
         RDiv(RSub(g.b, g.a), RInt(g.N + 1))
    [] OTHER -> RDiv(RSub(g.b, g.a), RInt(g.N))

\* where the first and last point of each convention are said to lie
EndsOf(g, X) ==
  CASE g.grid_type = "LEFT_CLOSED" -> X[1] = g.a /\ RLt(X[g.N], g.b)
    [] g.grid_type = "RIGHT_CLOSED" -> RLt(g.a, X[1]) /\ X[g.N] = g.b
    [] g.grid_type \in {"OPEN", "INTERIOR"} ->
         /\ X[1] = RAdd(g.a, SpacingOf(g))
         /\ X[g.N] = RSub(g.b, SpacingOf(g))
    [] g.grid_type = "MIDPOINT" ->
         /\ X[1] = RAdd(g.a, RDiv(SpacingOf(g), RInt(2)))
         /\ X[g.N] = RSub(g.b, RDiv(SpacingOf(g), RInt(2)))
    [] g.grid_type = "CLOSED" -> X[1] = g.a /\ X[g.N] = g.b

GridPointsOk(g, X) ==
  /\ Len(X) = g.N
  /\ \A i \in 1 .. g.N : RLe(g.a, X[i]) /\ RLe(X[i], g.b)
  /\ \A i \in 1 .. g.N - 1 :
       /\ RLt(X[i], X[i + 1])
       /\ RSub(X[i + 1], X[i]) = SpacingOf(g)
  /\ Grid_dx(g) = SpacingOf(g)
  /\ EndsOf(g, X)

C17_MixtureWithinTolerance ==
  (op = "MolarMixture" /\ IsOk(result)) =>
    /\ ~AnyLt(args.X_arr, Zero)
    /\ NLe(NAbs(NSub(NSum(args.X_arr), One)), Dec(1, -6))

Buildable(g) == Len(grids[g].x) >= 2

\* C13 as stated: the matrix of every operator is built lazily and once:
\* nothing is built at construction, _build_matrix runs at most once, and
\* every read of matrix returns the one cached array.
C13_BuiltOnce ==
  /\ \A o \in 1 .. Len(operators) :
       /\ operators[o].accesses = 0 =>
            operators[o].builds = 0 /\ operators[o]._matrix = NoMatrix
       /\ operators[o].builds <= 1
       /\ Cardinality(operators[o].returned) <= 1
  /\ op = "matrix" =>
       IsOk(result) /\ result.val = operators[args.self]._matrix

\* C13, amended: nothing is built at construction; on a grid of at least
\* two points _build_matrix runs at the first read and never again, and
\* every read returns the one cached array; on a smaller grid every read
\* runs _build_matrix again, fails, and caches nothing.
C13_BuiltOnceIfBuildable ==
  /\ \A o \in 1 .. Len(operators) :
       /\ operators[o].accesses = 0 =>
            operators[o].builds = 0 /\ operators[o]._matrix = NoMatrix
       /\ Cardinality(operators[o].returned) <= 1
       /\ operators[o].returned \subseteq {operators[o]._matrix}
       /\ Buildable(operators[o].grid) =>
            /\ operators[o].builds <= 1
            /\ operators[o].accesses > 0 =>
                 operators[o].returned = {operators[o]._matrix}
       /\ ~Buildable(operators[o].grid) =>
            /\ operators[o].builds = operators[o].accesses
            /\ operators[o]._matrix = NoMatrix
  /\ op = "matrix" =>
       /\ IsOk(result) <=> Buildable(operators[args.self].grid)
       /\ IsOk(result) => result.val = operators[args.self]._matrix

C13_Witness ==
  /\ op = "matrix"
  /\ IsOk(result)
  /\ operators[args.self].accesses >= 2
  /\ operators[args.self].builds = 1

\* C14 as stated: apply fails when psi.grid is another object than the
\* operator's grid, equal points or not, and with the same object it
\* succeeds and returns a state on that grid.
C14_ApplyNeedsSameGrid ==
  op = "apply" =>
    /\ args.psi.grid # operators[args.self].grid => ~IsOk(result)
    /\ args.psi.grid = operators[args.self].grid =>
         IsOk(result) /\ result.val.grid = operators[args.self].grid

\* C14, amended: apply fails when psi.grid is another object than the
\* operator's grid, equal points or not; with the same object it succeeds,
\* and returns a state on that grid, exactly when the grid has at least two
\* points and psi.values has one entry for each of them.
C14_ApplyNeedsSameGridAndShape ==
  op = "apply" =>
    /\ args.psi.grid # operators[args.self].grid => ~IsOk(result)
    /\ args.psi.grid = operators[args.self].grid =>
         /\ IsOk(result) <=>
              /\ Buildable(args.psi.grid)
              /\ Len(args.psi.values) = Len(grids[args.psi.grid].x)
         /\ IsOk(result) => result.val.grid = operators[args.self].grid

C14_Witness ==
  /\ op = "apply"
  /\ args.psi.grid # operators[args.self].grid
  /\ grids[args.psi.grid] = grids[operators[args.self].grid]
  /\ ~IsOk(result)

\* C18: the constants are never mutated: every assignment and deletion, on
\* an instance or on the class, fails, and every constant keeps the value
\* the module gave it.
C18_ConstantsNeverMutated ==
  /\ constants = ConstantsAtLoad
  /\ op \in {"setattr", "delattr"} => ~IsOk(result)

\* C19: parameter bundles are immutable: every reassignment of a field
\* fails and every object keeps the fields it was constructed with.
C19_BundlesImmutable ==
  /\ bundles = BundlesAtConstruction
  /\ op = "setattr" => ~IsOk(result)

\* the call named no dim
DimOmitted == "dim_given" \in DOMAIN args

\* C21: Density.convert called without a dim argument assumes no dimension
\* and returns no value.
C21_NoDimNoValue ==
  (op = "convert" /\ args.q = "Density" /\ DimOmitted) => ~IsOk(result)

\* C26: for dim in {1, 2, 3} convert takes g_per_cm_dim as g/cm^dim: a
\* value in g_per_cm_dim is 1e-3 * 100^dim times as large in kg_per_m_dim.
C26_GramPerCmDim ==
  (/\ IsConvert
   /\ args.q = "Density"
   /\ args.unit_from = EnumUnit("Density", 1)
   /\ args.to = EnumUnit("Density", 0)
   /\ args.dim \in {1, 2, 3})
  => result = Ok(NMul(args.value,
                      NMul(Dec(1, -3), NPow(Dec(100, 0), args.dim))))

\* C22: in every quantity's table each unit of the enumeration has exactly
\* one scale entry, the canonical unit has scale 1 (and offset 0 for
\* Temperature), and every scale factor is strictly positive.
C22_TablesWellFormed ==
  /\ \A q \in Quantities :
       /\ Len(tables[q]) = UnitCount(q)
       /\ tables[q][Canonical(q).ord + 1] = One
       /\ \A i \in 1 .. Len(tables[q]) : NSign(tables[q][i]) = 1
  /\ Len(tables["TemperatureOffset"]) = UnitCount("Temperature")
  /\ tables["TemperatureOffset"][Canonical("Temperature").ord + 1] = Zero

\* a value in the canonical unit was taken to the canonical unit, unchanged
C22_Witness ==
  /\ op = "to_canonical"
  /\ args.q = "MolarMass"
  /\ args.unit = Canonical("MolarMass")
  /\ args.value = Dec(760, 0)
  /\ result = Ok(args.value)

\* C30: the atomic mass unit has one value: 1 amu in kg is the same through
\* Mass.convert, through ParticleMass.convert and as ConstantsSI.m_u.
C30_OneAtomicMassUnit ==
  (/\ IsConvert
   /\ args.q = "Mass"
   /\ args.unit_from = EnumUnit("Mass", 7)
   /\ args.to = EnumUnit("Mass", 0)
   /\ args.value = One)
  => /\ result = Convert("ParticleMass", One, EnumUnit("ParticleMass", 1),
                         EnumUnit("ParticleMass", 0), 3)
     /\ result = constants["ConstantsSI"]["m_u"]

\* C24: every unit system is a named mapping that assigns one unit to each
\* quantity kind, and each assigned unit is a member of the enumeration of
\* that kind's quantity.
C24_SystemsNamedAndTotal ==
  op = "getattr_system" =>
    /\ IsOk(result)
    /\ args.attr \in QuantityKinds
         => result.val \in Units(KindQuantity(args.attr))

\* C25: P_Pa converts to kelvin, then checks positivity, then the range,
\* then enters the form-specific formula: an input that is non-positive
\* (out of range or not) reports the positivity error, a positive input
\* that the range check rejects reports the range error even when it is
\* singular, and an outcome of the formula (a pressure or the singularity
\* error) is only reported for an input that both checks accepted.
C25_StepOrder ==
  op = "P_Pa" =>
    LET T_K == KelvinsOf(args.curve, args.T)
        rejected == args.check_range /\ AnyOutOfRange(args.curve, T_K)
    IN  /\ AnyLe(T_K, Zero) => result = ErrPositive
        /\ (~AnyLe(T_K, Zero) /\ rejected) => result = ErrRange
        /\ (IsOk(result) \/ result = ErrSingular)
             => (~AnyLe(T_K, Zero) /\ ~rejected)

\* an array with a singular element (300 K, C = -300) and an element below
\* the range (26.85 K) reported the range error
C25_Witness ==
  /\ op = "P_Pa"
  /\ args.curve.T_unit = K
  /\ args.curve.C = Dec(-300, 0)
  /\ args.curve.valid_range_K = <<Dec(300, 0), Dec(400, 0)>>
  /\ args.check_range
  /\ args.T = [shape |-> "array", v |-> <<Dec(300, 0), Dec(2685, -2)>>]
  /\ result = ErrRange

\* C27: cache coherence: over matrix reads, apply calls and reassignments
\* of m, hbar and grid, a cached matrix equals the matrix that _build_matrix
\* produces from the operator's current attributes.
C27_CacheCoherent ==
  \A o \in 1 .. Len(operators) :
    operators[o]._matrix # NoMatrix =>
      LET Same(b) == IsOk(b) /\ b.val = operators[o]._matrix.rows
      IN  Same(build_matrix(operators[o]))

\* C28: apply compares the grids before it touches the matrix: an apply
\* rejected by that comparison leaves the operator, its cache included, as
\* it was (unbuilt if it was unbuilt) and every state unchanged; a
\* successful apply returns a state object that did not exist before and
\* leaves the states that existed, the input among them, with their grid
\* and values.
C28_ApplyFrame ==
  [][op' = "apply" =>
       /\ args'.psi = states[args'.at]
       /\ \A at \in 1 .. Len(states) : states'[at] = states[at]
       /\ states[args'.at].grid # operators[args'.self].grid =>
            /\ ~IsOk(result')
            /\ operators' = operators
            /\ states' = states
       /\ IsOk(result') =>
            /\ result'.val.at = Len(states) + 1
            /\ DOMAIN states' = 1 .. Len(states) + 1
            /\ states'[result'.val.at] =
                 [grid |-> result'.val.grid, values |-> result'.val.values]
    ]_vars

\* an operator whose matrix was never built turned down a state on a grid
\* made like its own, and is still unbuilt
C28_Witness ==
  /\ op = "apply"
  /\ args.psi.grid # operators[args.self].grid
  /\ grids[args.psi.grid] = grids[operators[args.self].grid]
  /\ Len(args.psi.values) = Len(grids[args.psi.grid].x)
  /\ result = Err("Operator and state must share the same grid.")
  /\ operators[args.self]._matrix = NoMatrix
  /\ operators[args.self].accesses = 0

\* C29: a state on a grid returned by make_grid() of a well is accepted by
\* apply of a Hamiltonian returned by make_hamiltonian() of the same well,
\* whichever of the two was called first: apply does not turn it down for a
\* grid mismatch.
C29_WellGridAccepted ==
  (/\ op = "apply"
   /\ \E w \in 1 .. Len(wells) :
        /\ args.psi.grid \in wells[w].made_grids
        /\ args.self \in wells[w].made_hamiltonians)
  => result # Err("Operator and state must share the same grid.")

\* the reference points: value, ordinals of the two units, expected value
\* (Temperature.Units: K = 0, C = 1, mK = 2, F = 3, R = 4)
ExactPoints ==
  {<<DInt(0), 1, 0, DDec(27315, 2)>>,
   <<DDec(27315, 2), 0, 1, DInt(0)>>,
   <<DInt(32), 3, 1, DInt(0)>>,
   <<DInt(1000), 2, 0, DInt(1)>>}

RoundedPoints ==
  {<<DInt(0), 1, 3, DInt(32)>>,
   <<DDec(-45967, 2), 3, 0, DInt(0)>>,
   <<DDec(49167, 2), 4, 0, DDec(27315, 2)>>}

IsPoint(r) ==
  /\ op = "convert64"
  /\ args.value = r[1]
  /\ args.unit_from = EnumUnit("Temperature", r[2])
  /\ args.to = EnumUnit("Temperature", r[3])

\* C23 as stated: Temperature.convert maps the seven reference points
\* exactly: 0 C to 273.15 K, 273.15 K to 0 C, 32 F to 0 C, 0 C to 32 F,
\* -459.67 F to 0 K, 491.67 R to 273.15 K and 1000 mK to 1 K.
C23_ReferencePointsExact ==
  \A r \in ExactPoints \cup RoundedPoints : IsPoint(r) => result.val = r[4]

\* C23, amended: 0 C to 273.15 K, 273.15 K to 0 C, 32 F to 0 C and 1000 mK
\* to 1 K are mapped exactly; 0 C to F, -459.67 F to K and 491.67 R to K
\* are mapped to within 2^-44 (about 5.7e-14) of 32, 0 and 273.15.
C23_ReferencePointsRounded ==
  /\ \A r \in ExactPoints : IsPoint(r) => result.val = r[4]
  /\ \A r \in RoundedPoints : IsPoint(r) => DWithin(result.val, r[4], -44)

\* 0 C was converted to F and the float returned is not 32.0
C23_Witness ==
  /\ IsPoint(<<DInt(0), 1, 3, DInt(32)>>)
  /\ result.val # DInt(32)
  /\ DWithin(result.val, DInt(32), -46)

====
